---- MODULE Spec2Model ----
(***************************************************************************)
(* rommy: the run-record text format (encoder and parser), the             *)
(* concurrency-safe writer, the capture engine and validate of             *)
(* src/src/main.rs and src/src/parser.rs, as state machines.  Each         *)
(* component has its own specification (the parser has three: on encoded   *)
(* records, on free sequences of lines, on whole files); the variables of  *)
(* the components that do not run in it keep their initial value.          *)
(*                                                                         *)
(* Text is a sequence of tokens.  A token stands for a non-empty run of    *)
(* bytes that holds no whitespace, no ':' and no line break ("par-1",      *)
(* "<<<META>>>"), or for exactly one of the bytes "\n", "\r", " ", "\t",   *)
(* ":".  Everything the encoder and the parser look at (line breaks,       *)
(* surrounding whitespace, the first colon of a line, whole-line markers)  *)
(* is therefore visible at token level.                                    *)
(***************************************************************************)
EXTENDS Integers, Sequences, FiniteSets, TLC

(***************************************************************************)
(* Bounds of the model.                                                    *)
(***************************************************************************)
\* Number of rommy processes that run the write protocol on the destination.
NumWriters == 2

Writers == 1..NumWriters

(***************************************************************************)
(* Text helpers.                                                           *)
(***************************************************************************)
NL == "\n"
CR == "\r"
SP == " "
TAB == "\t"
COLON == ":"

MARK_META == "<<<META>>>"
MARK_COMMAND == "<<<COMMAND>>>"
MARK_STDOUT == "<<<STDOUT>>>"
MARK_STDERR == "<<<STDERR>>>"
MARK_END == "<<<END>>>"

\* str::trim strips Unicode whitespace; a line never holds "\n".
IsWhitespace(tok) == tok \in {SP, TAB, CR, NL}

RECURSIVE Flatten(_)
\* Concatenation of a sequence of texts.
Flatten(ss) == IF ss = <<>> THEN <<>> ELSE Head(ss) \o Flatten(Tail(ss))

\* t starts with p.
IsPrefix(p, t) == Len(p) <= Len(t) /\ SubSeq(t, 1, Len(p)) = p

\* The first n tokens of t.
Take(t, n) == SubSeq(t, 1, n)

\* t without its first n tokens.
Drop(t, n) == SubSeq(t, n + 1, Len(t))

\* writeln!(f, ...): the formatted text followed by one "\n".
Writeln(t) == t \o <<NL>>

(***************************************************************************)
(* Run records and the encoder, write_record.                              *)
(***************************************************************************)
\* Option<&str>: None, or Some(text).
None == [some |-> FALSE, val |-> <<>>]
Some(t) == [some |-> TRUE, val |-> t]

\* enum RommyCommand
CmdLine(line) == [kind |-> "Line", line |-> line, path |-> <<>>, content |-> <<>>]
CmdScript(path, content) ==
    [kind |-> "Script", line |-> <<>>, path |-> path, content |-> content]

\* status_str of run(): "ok" exactly when the exit code is 0.
StatusStr(exit_code) == IF exit_code = 0 THEN "ok" ELSE "error"

\* The META block of write_record, one text per write call.
MetaCalls(r) ==
    <<Writeln(<<MARK_META>>),
      Writeln(<<"rommy_version", COLON, SP>> \o r.rommy_version)>>
    \o (IF r.label.some THEN <<Writeln(<<"label", COLON, SP>> \o r.label.val)>> ELSE <<>>)
    \o <<Writeln(<<"cwd", COLON, SP>> \o r.cwd)>>
    \o (IF r.user.some THEN <<Writeln(<<"user", COLON, SP>> \o r.user.val)>> ELSE <<>>)
    \o (IF r.host.some THEN <<Writeln(<<"host", COLON, SP>> \o r.host.val)>> ELSE <<>>)
    \o <<IF r.command.kind = "Script"
         THEN Writeln(<<"script_path", COLON, SP>> \o r.command.path)
         ELSE Writeln(<<"command_line", COLON, SP>> \o r.command.line),
         Writeln(<<"start_ts", COLON, SP>> \o r.start_ts),
         Writeln(<<"end_ts", COLON, SP>> \o r.end_ts),
         Writeln(<<"duration_ms", COLON, SP>> \o r.duration_ms),
         Writeln(<<"output_path", COLON, SP>> \o r.output_path),
         Writeln(<<"status", COLON, SP, r.status>>),
         Writeln(<<"exit_code", COLON, SP, ToString(r.exit_code)>>),
         Writeln(<<MARK_END>>)>>

\* The COMMAND block: the script text verbatim, or "$ " and the command line.
CommandCalls(r) ==
    <<Writeln(<<MARK_COMMAND>>),
      IF r.command.kind = "Script"
      THEN r.command.content
      ELSE Writeln(<<"$", SP>> \o r.command.line),
      Writeln(<<MARK_END>>)>>

\* A STDOUT/STDERR block whose end marker follows the bytes directly.
StreamCallsVerbatim(marker, bytes) ==
    <<Writeln(<<marker>>), bytes, Writeln(<<MARK_END>>)>>

\* A STDOUT/STDERR block: the bytes verbatim, then one "\n" when they are
\* non-empty and do not end in "\n".
StreamCalls(marker, bytes) ==
    <<Writeln(<<marker>>), bytes>>
    \o (IF bytes # <<>> /\ bytes[Len(bytes)] # NL THEN <<Writeln(<<>>)>> ELSE <<>>)
    \o <<Writeln(<<MARK_END>>)>>

\* write_record as the sequence of its write calls, in order.
WriteCalls(r) ==
    MetaCalls(r) \o CommandCalls(r)
    \o StreamCalls(MARK_STDOUT, r.stdout) \o StreamCalls(MARK_STDERR, r.stderr)

\* The bytes a complete write_record puts into the file.
EncodeRecord(r) == Flatten(WriteCalls(r))

(***************************************************************************)
(* The parser, parse_str of src/src/parser.rs.                             *)
(***************************************************************************)
RECURSIVE ReplaceCRLFByCR(_)
\* input.replace("\r\n", "\r"): the "\n" is dropped instead of the "\r".
ReplaceCRLFByCR(t) ==
    LET crlf == {i \in 1..(Len(t) - 1) : t[i] = CR /\ t[i + 1] = NL}
    IN  IF crlf = {} THEN t
        ELSE LET i == CHOOSE k \in crlf : \A j \in crlf : k <= j
             IN  Take(t, i - 1) \o <<CR>> \o ReplaceCRLFByCR(Drop(t, i + 1))

RECURSIVE ReplaceCRLF(_)
\* input.replace("\r\n", "\n"): every "\r" that stands right before a "\n"
\* is dropped, from left to right.
ReplaceCRLF(t) ==
    LET crlf == {i \in 1..(Len(t) - 1) : t[i] = CR /\ t[i + 1] = NL}
    IN  IF crlf = {} THEN t
        ELSE LET i == CHOOSE k \in crlf : \A j \in crlf : k <= j
             IN  Take(t, i - 1) \o <<NL>> \o ReplaceCRLF(Drop(t, i + 1))

\* One line of str::lines: its line ending is gone, and so is one "\r"
\* that stood right before it.
StripLineEnd(seg) ==
    IF seg # <<>> /\ seg[Len(seg)] = CR THEN Take(seg, Len(seg) - 1) ELSE seg

RECURSIVE SplitLines(_)
\* str::lines: the text split at "\n"; a final line ending opens no line.
SplitLines(t) ==
    IF t = <<>> THEN <<>>
    ELSE LET nls == {i \in 1..Len(t) : t[i] = NL}
         IN  IF nls = {} THEN <<StripLineEnd(t)>>
             ELSE LET i == CHOOSE k \in nls : \A j \in nls : k <= j
                  IN  <<StripLineEnd(Take(t, i - 1))>> \o SplitLines(Drop(t, i))

\* str::trim
Trim(line) ==
    LET keep == {i \in 1..Len(line) : ~IsWhitespace(line[i])}
    IN  IF keep = {} THEN <<>>
        ELSE SubSeq(line,
                    CHOOSE a \in keep : \A j \in keep : a <= j,
                    CHOOSE b \in keep : \A j \in keep : j <= b)

\* Block::from_marker: the block kind a line names, or "None".
from_marker(line) ==
    LET s == Trim(line)
    IN  IF s = <<MARK_META>> THEN "Meta"
        ELSE IF s = <<MARK_COMMAND>> THEN "Command"
        ELSE IF s = <<MARK_STDOUT>> THEN "Stdout"
        ELSE IF s = <<MARK_STDERR>> THEN "Stderr"
        ELSE "None"

\* HashMap::insert on a map kept as a set of <<key, value>> pairs.
MetaInsert(m, k, v) == {p \in m : p[1] # k} \cup {<<k, v>>}

\* HashMap lookup: the value under k, or <<>> when k is no key of m.
MetaGet(m, k) ==
    IF \E p \in m : p[1] = k THEN (CHOOSE p \in m : p[1] = k)[2] ELSE <<>>

\* cur.push('\n') unless cur is empty, then cur.push_str(line).
PushLine(cur, line) == IF cur # <<>> THEN cur \o <<NL>> \o line ELSE line

\* The parser's locals before the first line.
ParserInit ==
    [state |-> "Idle", block |-> "None",
     open |-> FALSE, cur_meta |-> {},
     cur_cmd |-> <<>>, cur_stdout |-> <<>>, cur_stderr |-> <<>>,
     saw_meta |-> FALSE, saw_command |-> FALSE,
     saw_stdout |-> FALSE, saw_stderr |-> FALSE,
     out |-> <<>>, err |-> "", missing |-> <<>>]

\* finish_record without its check of saw_stderr.
MissingBlocksNoStderr(p) ==
    (IF ~p.saw_meta THEN <<"META">> ELSE <<>>)
    \o (IF ~p.saw_command THEN <<"COMMAND">> ELSE <<>>)
    \o (IF ~p.saw_stdout THEN <<"STDOUT">> ELSE <<>>)

\* The block kinds finish_record reports missing, in its order.
MissingBlocks(p) ==
    (IF ~p.saw_meta THEN <<"META">> ELSE <<>>)
    \o (IF ~p.saw_command THEN <<"COMMAND">> ELSE <<>>)
    \o (IF ~p.saw_stdout THEN <<"STDOUT">> ELSE <<>>)
    \o (IF ~p.saw_stderr THEN <<"STDERR">> ELSE <<>>)

\* finish_record: take cur_meta and push the record, or fail.
finish_record(p) ==
    IF ~p.open
    THEN [p EXCEPT !.err = "unexpected end of record: META missing"]
    ELSE IF MissingBlocks(p) # <<>>
    THEN [p EXCEPT !.open = FALSE, !.cur_meta = {},
                   !.err = "incomplete record: missing block(s)",
                   !.missing = MissingBlocks(p)]
    ELSE [p EXCEPT !.open = FALSE, !.cur_meta = {},
                   !.out = Append(p.out, [meta |-> p.cur_meta,
                                          command |-> p.cur_cmd,
                                          stdout |-> p.cur_stdout,
                                          stderr |-> p.cur_stderr])]

\* start_record without the clear() of the three bodies.
start_record_keeping_bodies(p) ==
    [p EXCEPT !.open = TRUE, !.cur_meta = {},
              !.saw_meta = FALSE, !.saw_command = FALSE,
              !.saw_stdout = FALSE, !.saw_stderr = FALSE,
              !.state = "InBlock", !.block = "Meta"]

\* start_record and the reset of the four saw_ flags.
start_record(p) ==
    [p EXCEPT !.open = TRUE, !.cur_meta = {},
              !.cur_cmd = <<>>, !.cur_stdout = <<>>, !.cur_stderr = <<>>,
              !.saw_meta = FALSE, !.saw_command = FALSE,
              !.saw_stdout = FALSE, !.saw_stderr = FALSE,
              !.state = "InBlock", !.block = "Meta"]

\* A begin-marker line of kind b that is tolerated, as noise, when it repeats
\* the marker of the block that is open.
OnMarkerSameKindTolerated(p, b) ==
    IF p.state = "Idle"
    THEN IF b = "Meta"
         THEN LET q == IF p.open THEN finish_record(p) ELSE p
              IN  IF q.err # "" THEN q ELSE start_record(q)
         ELSE IF p.open THEN [p EXCEPT !.state = "InBlock", !.block = b] ELSE p
    ELSE IF b = p.block THEN p
    ELSE [p EXCEPT !.err = "unexpected start of block before closing previous block",
                   !.missing = <<b>>]

\* A begin-marker line of kind b that opens a COMMAND, STDOUT or STDERR block
\* whether or not a record is open.
OnMarkerWithoutRecord(p, b) ==
    IF p.state = "Idle"
    THEN IF b = "Meta"
         THEN LET q == IF p.open THEN finish_record(p) ELSE p
              IN  IF q.err # "" THEN q ELSE start_record(q)
         ELSE [p EXCEPT !.state = "InBlock", !.block = b]
    ELSE [p EXCEPT !.err = "unexpected start of block before closing previous block",
                   !.missing = <<b>>]

\* A begin-marker line of kind b, where a META marker starts the next record
\* without finalizing the record that is open.
OnMarkerDroppingOpenRecord(p, b) ==
    IF p.state = "Idle"
    THEN IF b = "Meta"
         THEN start_record(p)
         ELSE IF p.open THEN [p EXCEPT !.state = "InBlock", !.block = b] ELSE p
    ELSE [p EXCEPT !.err = "unexpected start of block before closing previous block",
                   !.missing = <<b>>]

\* A begin-marker line of kind b.
OnMarker(p, b) ==
    IF p.state = "Idle"
    THEN IF b = "Meta"
         THEN LET q == IF p.open THEN finish_record(p) ELSE p
              IN  IF q.err # "" THEN q ELSE start_record(q)
         ELSE IF p.open THEN [p EXCEPT !.state = "InBlock", !.block = b] ELSE p
    ELSE [p EXCEPT !.err = "unexpected start of block before closing previous block",
                   !.missing = <<b>>]

\* An end-marker line.
OnEnd(p) ==
    IF p.state = "Idle" THEN p
    ELSE [p EXCEPT !.saw_meta = IF p.block = "Meta" THEN TRUE ELSE @,
                   !.saw_command = IF p.block = "Command" THEN TRUE ELSE @,
                   !.saw_stdout = IF p.block = "Stdout" THEN TRUE ELSE @,
                   !.saw_stderr = IF p.block = "Stderr" THEN TRUE ELSE @,
                   !.state = "Idle", !.block = "None"]

\* A META line: blank lines and lines without ':' are skipped, the others
\* are split at the first ':' into trimmed key and value.
OnMetaLine(p, line) ==
    LET colons == {i \in 1..Len(line) : line[i] = COLON}
    IN  IF Trim(line) = <<>> \/ colons = {} THEN p
        ELSE LET i == CHOOSE k \in colons : \A j \in colons : k <= j
             IN  [p EXCEPT !.cur_meta = MetaInsert(@, Trim(Take(line, i - 1)),
                                                   Trim(Drop(line, i)))]

\* Any other line.
OnPlainLine(p, line) ==
    IF p.state = "Idle" THEN p
    ELSE IF p.block = "Meta" THEN OnMetaLine(p, line)
    ELSE IF p.block = "Command" THEN [p EXCEPT !.cur_cmd = PushLine(@, line)]
    ELSE IF p.block = "Stdout" THEN [p EXCEPT !.cur_stdout = PushLine(@, line)]
    ELSE [p EXCEPT !.cur_stderr = PushLine(@, line)]

\* One iteration of the loop over the lines.
ParseLine(p, line) ==
    IF from_marker(line) # "None" THEN OnMarker(p, from_marker(line))
    ELSE IF Trim(line) = <<MARK_END>> THEN OnEnd(p)
    ELSE OnPlainLine(p, line)

RECURSIVE ParseLines(_, _)
\* The loop over the lines; the first error ends it.
ParseLines(p, lines) ==
    IF lines = <<>> \/ p.err # "" THEN p
    ELSE ParseLines(ParseLine(p, Head(lines)), Tail(lines))

\* The match after the loop without its InBlock arm: an open block is taken
\* as closed by the end of the input.
ParseEofOpenBlockTolerated(p) ==
    IF p.err # "" THEN p
    ELSE IF p.open THEN finish_record(p) ELSE p

\* The match after the loop with an Idle arm that finalizes a record whether
\* or not one is open.
ParseEofFinishesAlways(p) ==
    IF p.err # "" THEN p
    ELSE IF p.state = "InBlock"
    THEN [p EXCEPT !.err = "unexpected EOF: block not closed with <<<END>>>"]
    ELSE finish_record(p)

\* The match on the state after the last line.
ParseEof(p) ==
    IF p.err # "" THEN p
    ELSE IF p.state = "InBlock"
    THEN [p EXCEPT !.err = "unexpected EOF: block not closed with <<<END>>>"]
    ELSE IF p.open THEN finish_record(p) ELSE p

\* parse_str: Ok(records) or Err(message).
parse_str(input) ==
    LET p == ParseEof(ParseLines(ParserInit, SplitLines(ReplaceCRLF(input))))
    IN  [ok |-> p.err = "", err |-> p.err, missing |-> p.missing,
         records |-> IF p.err = "" THEN p.out ELSE <<>>]

(***************************************************************************)
(* The records of the model.  Writer w runs `rommy run --out <dest> -- ...` *)
(* once; its child has exited and its output is captured, and RecordOf(w)   *)
(* is the record run() hands to write_record.  The records differ in their  *)
(* payload and cover both command variants, present and absent optional    *)
(* fields, and output with and without a final "\n".                       *)
(***************************************************************************)
\* The payload of record w: the token "par-<w>".
Payload(w) == "par-" \o ToString(w)

\* The record of run number w (0: a run that ended before the model starts).
RecordOf(w) ==
    LET exit_code == IF w % 3 = 2 THEN 1 ELSE 0
        line == <<"echo", SP, Payload(w)>>
    IN  [rommy_version |-> <<"0.1.0">>,
         label |-> IF w % 3 = 2 THEN Some(<<"nightly">>) ELSE None,
         cwd |-> <<"/work">>,
         user |-> IF w % 3 = 0 THEN None ELSE Some(<<"alice">>),
         host |-> IF w % 3 = 0 THEN None ELSE Some(<<"box">>),
         command |-> IF w % 3 = 0
                     THEN CmdScript(<<"/work/s.sh">>,
                                    <<"#!/usr/bin/env", SP, "bash", NL>>
                                    \o line \o <<NL, NL>>)
                     ELSE CmdLine(line),
         start_ts |-> <<"2024-01-01T10", COLON, "00">>,
         end_ts |-> <<"2024-01-01T10", COLON, "01">>,
         duration_ms |-> <<"60000">>,
         output_path |-> <<"out.rommy">>,
         status |-> StatusStr(exit_code),
         exit_code |-> exit_code,
         stdout |-> IF w % 3 = 2 THEN <<Payload(w)>> ELSE <<Payload(w), NL>>,
         stderr |-> IF w % 3 = 2 THEN <<"warn", NL>> ELSE <<>>]

(***************************************************************************)
(* The concurrency-safe writer: the write path of run().                   *)
(***************************************************************************)
VARIABLES
    windows,      \* the build: TRUE when compiled with cfg(windows)
    append,       \* append[w]: cfg.append of writer w
    pc,           \* pc[w]: the statement of run() writer w executes next
    dest,         \* the file at out_path
    tmp,          \* tmp[w]: the file at writer w's tmp_path
    lockFile,     \* the sidecar lock file at lock_path(out_path)
    holders,      \* the writers whose lock_file handle holds the exclusive lock
    snap,         \* snap[w]: the file at out_path when w took the lock
    lockOrder,    \* the writers in the order in which they took the lock
    initDest,     \* the file at out_path before any writer started
    initTmp,      \* the files at the temporary paths before any writer started
    removeFailed  \* removeFailed[w]: w's remove_file(tmp_path) returned an error

\* The state of the other components, each of which runs on its own.
VARIABLES
    spawnFailed,  \* the writers whose command.spawn() returned an error
    codec,        \* a record on its way through write_record and parse_str
    feed,         \* parse_str fed line by line: its locals and what it has read
    capture,      \* one call of spawn_and_stream
    validation    \* one call of validate

writerVars == <<windows, append, pc, dest, tmp, lockFile, holders, snap, lockOrder,
                initDest, initTmp, removeFailed>>

\* What the steps of the write path leave alone.
aux == <<spawnFailed, codec, feed, capture, validation>>

vars == <<windows, append, pc, dest, tmp, lockFile, holders, snap, lockOrder,
          initDest, initTmp, removeFailed, spawnFailed, codec, feed, capture, validation>>

\* The value of a component that does not run.
Idle == [phase |-> "idle"]

\* A path that names no file, and a file with its content.
NoFile == [exists |-> FALSE, data |-> <<>>]
File(data) == [exists |-> TRUE, data |-> data]

\* The lengths at which a failing write leaves its output: nothing written,
\* about half of it, all but the last token.
CutPoints(n) == {0, n \div 2, n - 1} \cap (0..(n - 1))

\* The statements of the closure of lines 397-454 (steps 4 to 8).
ClosurePcs == {"create", "copy", "write", "sync", "win_remove", "rename"}

\* Writer w is inside the critical section of the protocol.
InCritical(w) == pc[w] \in ClosurePcs

\* Writer w has returned from run().
Returned(w) == pc[w] \in {"done_ok", "done_err"}

Init ==
    /\ windows \in BOOLEAN
    /\ append \in [Writers -> BOOLEAN]
    /\ pc = [w \in Writers |-> "open_lock"]
    /\ dest \in {NoFile, File(<<>>), File(EncodeRecord(RecordOf(0)))}
    /\ tmp = [w \in Writers |-> NoFile]
    /\ lockFile = NoFile
    /\ holders = {}
    /\ snap = [w \in Writers |-> NoFile]
    /\ lockOrder = <<>>
    /\ initDest = dest
    /\ initTmp = tmp
    /\ removeFailed = [w \in Writers |-> FALSE]
    /\ spawnFailed = {}
    /\ codec = Idle
    /\ feed = Idle
    /\ capture = Idle
    /\ validation = Idle

\* A lock file that carries the identity of the writer that opened it last.
OpenedLockFileStamped(w) == File(<<"pid", w>>)

\* The lock file after open() with create(true).write(true): a missing file
\* is created empty, an existing file is opened as it is (no truncate, and
\* nothing is written through the handle).
OpenedLockFile(w) == IF lockFile.exists THEN lockFile ELSE File(<<>>)

\* OpenOptions::new().create(true).write(true).open(&lock_path)
OpenLock(w) ==
    /\ pc[w] = "open_lock"
    /\ \/ /\ lockFile' = OpenedLockFile(w)
          /\ pc' = [pc EXCEPT ![w] = "lock"]
       \/ /\ pc' = [pc EXCEPT ![w] = "done_err"]
          /\ UNCHANGED lockFile
    /\ UNCHANGED aux
    /\ UNCHANGED <<windows, append, dest, tmp, holders, snap, lockOrder, initDest, initTmp, removeFailed>>

\* A lock that excludes nobody (lock_shared in place of lock_exclusive).
LockGrantedShared(w) == TRUE

\* lock_exclusive() returns Ok only while no other handle holds the lock.
LockGranted(w) == holders = {}

\* A non-blocking attempt whose refusal is dropped (try_lock_exclusive().ok()):
\* the writer goes on whether or not it got the lock.
LockExclusiveTry(w) ==
    /\ pc[w] = "lock"
    /\ holders' = IF holders = {} THEN {w} ELSE holders
    /\ snap' = [snap EXCEPT ![w] = dest]
    /\ lockOrder' = Append(lockOrder, w)
    /\ pc' = [pc EXCEPT ![w] = "canon"]
    /\ UNCHANGED aux
    /\ UNCHANGED <<windows, append, dest, tmp, lockFile, initDest, initTmp, removeFailed>>

\* lock_file.lock_exclusive(): blocks until the lock is granted, or fails.
LockExclusive(w) ==
    /\ pc[w] = "lock"
    /\ \/ /\ LockGranted(w)
          /\ holders' = holders \cup {w}
          /\ snap' = [snap EXCEPT ![w] = dest]
          /\ lockOrder' = Append(lockOrder, w)
          /\ pc' = [pc EXCEPT ![w] = "canon"]
       \/ /\ pc' = [pc EXCEPT ![w] = "done_err"]
          /\ UNCHANGED <<holders, snap, lockOrder>>
    /\ UNCHANGED aux
    /\ UNCHANGED <<windows, append, dest, tmp, lockFile, initDest, initTmp, removeFailed>>

\* fs::canonicalize(&cwd_path)?  An error returns from run() at once.
Canonicalize(w) ==
    /\ pc[w] = "canon"
    /\ \/ pc' = [pc EXCEPT ![w] = "create"]
       \/ pc' = [pc EXCEPT ![w] = "ret_err"]
    /\ UNCHANGED aux
    /\ UNCHANGED <<windows, append, dest, tmp, lockFile, holders, snap, lockOrder,
                   initDest, initTmp, removeFailed>>

\* The existing content is copied whether or not --append was given.
CopiesExistingAlways(w) == TRUE

\* `if cfg.append`: the temporary file starts with the existing content
\* only in append mode.
CopiesExisting(w) == append[w]

\* OpenOptions::new().create_new(true).write(true).open(&tmp_path)
CreateTemp(w) ==
    /\ pc[w] = "create"
    /\ \/ /\ ~tmp[w].exists
          /\ tmp' = [tmp EXCEPT ![w] = File(<<>>)]
          /\ pc' = [pc EXCEPT ![w] = IF CopiesExisting(w) THEN "copy" ELSE "write"]
       \/ /\ pc' = [pc EXCEPT ![w] = "cleanup"]
          /\ UNCHANGED tmp
    /\ UNCHANGED aux
    /\ UNCHANGED <<windows, append, dest, lockFile, holders, snap, lockOrder,
                   initDest, initTmp, removeFailed>>

\* The append branch opens a path that names no file.
CopySourceMissing(w) == NoFile

\* What the append branch reads: the file at out_path.
CopySource(w) == dest

\* NotFound ends the closure with Ok(()): nothing is written or renamed.
CopyExistingEarlyReturn(w) ==
    /\ pc[w] = "copy"
    /\ \/ /\ ~dest.exists
          /\ pc' = [pc EXCEPT ![w] = "unlock"]
          /\ UNCHANGED tmp
       \/ /\ pc' = [pc EXCEPT ![w] = "cleanup"]
          /\ UNCHANGED tmp
       \/ /\ dest.exists
          /\ tmp' = [tmp EXCEPT ![w] = File(@.data \o dest.data)]
          /\ pc' = [pc EXCEPT ![w] = "write"]
    /\ UNCHANGED aux
    /\ UNCHANGED <<windows, append, dest, lockFile, holders, snap, lockOrder,
                   initDest, initTmp, removeFailed>>

\* The result of io::copy is dropped: a copy that fails half way goes on to
\* write the record.
CopyExistingIgnoreErr(w) ==
    /\ pc[w] = "copy"
    /\ \/ /\ ~dest.exists
          /\ UNCHANGED tmp
       \/ /\ dest.exists
          /\ \E n \in CutPoints(Len(dest.data)) \cup {Len(dest.data)} :
                tmp' = [tmp EXCEPT ![w] = File(@.data \o Take(dest.data, n))]
    /\ pc' = [pc EXCEPT ![w] = "write"]
    /\ UNCHANGED aux
    /\ UNCHANGED <<windows, append, dest, lockFile, holders, snap, lockOrder,
                   initDest, initTmp, removeFailed>>

\* if cfg.append { match fs::File::open(&out_path) { ... io::copy ... } }
CopyExisting(w) ==
    /\ pc[w] = "copy"
    /\ \/ /\ ~CopySource(w).exists                       \* NotFound
          /\ pc' = [pc EXCEPT ![w] = "write"]
          /\ UNCHANGED tmp
       \/ /\ pc' = [pc EXCEPT ![w] = "cleanup"]           \* open fails
          /\ UNCHANGED tmp
       \/ /\ CopySource(w).exists                        \* io::copy succeeds
          /\ tmp' = [tmp EXCEPT ![w] = File(@.data \o CopySource(w).data)]
          /\ pc' = [pc EXCEPT ![w] = "write"]
       \/ /\ CopySource(w).exists                        \* io::copy fails
          /\ \E n \in CutPoints(Len(CopySource(w).data)) :
                tmp' = [tmp EXCEPT ![w] = File(@.data \o Take(CopySource(w).data, n))]
          /\ pc' = [pc EXCEPT ![w] = "cleanup"]
    /\ UNCHANGED aux
    /\ UNCHANGED <<windows, append, dest, lockFile, holders, snap, lockOrder,
                   initDest, initTmp, removeFailed>>

\* The record written straight to out_path, with no temporary file in between.
WriteRecordInPlace(w) ==
    /\ pc[w] = "write"
    /\ \/ /\ dest' = File(dest.data \o EncodeRecord(RecordOf(w)))
          /\ pc' = [pc EXCEPT ![w] = "sync"]
       \/ /\ \E n \in CutPoints(Len(EncodeRecord(RecordOf(w)))) :
                dest' = File(dest.data \o Take(EncodeRecord(RecordOf(w)), n))
          /\ pc' = [pc EXCEPT ![w] = "cleanup"]
    /\ UNCHANGED aux
    /\ UNCHANGED <<windows, append, tmp, lockFile, holders, snap, lockOrder,
                   initDest, initTmp, removeFailed>>

\* The record written in front of what the temporary file holds.
WriteRecordFirst(w) ==
    /\ pc[w] = "write"
    /\ tmp' = [tmp EXCEPT ![w] = File(EncodeRecord(RecordOf(w)) \o @.data)]
    /\ pc' = [pc EXCEPT ![w] = "sync"]
    /\ UNCHANGED aux
    /\ UNCHANGED <<windows, append, dest, lockFile, holders, snap, lockOrder,
                   initDest, initTmp, removeFailed>>

\* write_record(&mut temp, ...)?
WriteRecord(w) ==
    /\ pc[w] = "write"
    /\ \/ /\ tmp' = [tmp EXCEPT ![w] = File(@.data \o EncodeRecord(RecordOf(w)))]
          /\ pc' = [pc EXCEPT ![w] = "sync"]
       \/ /\ \E n \in CutPoints(Len(EncodeRecord(RecordOf(w)))) :
                tmp' = [tmp EXCEPT ![w] =
                            File(@.data \o Take(EncodeRecord(RecordOf(w)), n))]
          /\ pc' = [pc EXCEPT ![w] = "cleanup"]
    /\ UNCHANGED aux
    /\ UNCHANGED <<windows, append, dest, lockFile, holders, snap, lockOrder,
                   initDest, initTmp, removeFailed>>

\* The destination removed before the rename on every platform.
RemovesDestAlways == TRUE

\* #[cfg(windows)]: the block that removes out_path before the rename is
\* compiled in.
RemovesDestFirst == windows

\* temp.sync_all()
Sync(w) ==
    /\ pc[w] = "sync"
    /\ \/ pc' = [pc EXCEPT ![w] = IF RemovesDestFirst THEN "win_remove" ELSE "rename"]
       \/ pc' = [pc EXCEPT ![w] = "cleanup"]
    /\ UNCHANGED aux
    /\ UNCHANGED <<windows, append, dest, tmp, lockFile, holders, snap, lockOrder,
                   initDest, initTmp, removeFailed>>

\* #[cfg(windows)] if out_path.exists() { fs::remove_file(&out_path)? }
WinRemove(w) ==
    /\ pc[w] = "win_remove"
    /\ \/ /\ ~dest.exists
          /\ pc' = [pc EXCEPT ![w] = "rename"]
          /\ UNCHANGED dest
       \/ /\ dest.exists
          /\ dest' = NoFile
          /\ pc' = [pc EXCEPT ![w] = "rename"]
       \/ /\ dest.exists
          /\ pc' = [pc EXCEPT ![w] = "cleanup"]
          /\ UNCHANGED dest
    /\ UNCHANGED aux
    /\ UNCHANGED <<windows, append, tmp, lockFile, holders, snap, lockOrder,
                   initDest, initTmp, removeFailed>>

\* fs::rename(&tmp_path, &out_path)
Rename(w) ==
    /\ pc[w] = "rename"
    /\ \/ /\ dest' = tmp[w]
          /\ tmp' = [tmp EXCEPT ![w] = NoFile]
          /\ pc' = [pc EXCEPT ![w] = "unlock"]
       \/ /\ pc' = [pc EXCEPT ![w] = "cleanup"]
          /\ UNCHANGED <<dest, tmp>>
    /\ UNCHANGED aux
    /\ UNCHANGED <<windows, append, lockFile, holders, snap, lockOrder, initDest, initTmp, removeFailed>>

\* The error path without the remove_file.
CleanupSkipped(w) ==
    /\ pc[w] = "cleanup"
    /\ pc' = [pc EXCEPT ![w] = "ret_err"]
    /\ UNCHANGED aux
    /\ UNCHANGED <<windows, append, dest, tmp, lockFile, holders, snap, lockOrder,
                   initDest, initTmp, removeFailed>>

\* The error path removes the temporary file only if this attempt created
\* it: a file that was at the path before is left alone.
CleanupOwnFileOnly(w) ==
    /\ pc[w] = "cleanup"
    /\ \/ /\ tmp' = [tmp EXCEPT ![w] = IF tmp[w] = initTmp[w] THEN tmp[w] ELSE NoFile]
          /\ UNCHANGED removeFailed
       \/ /\ tmp[w].exists
          /\ removeFailed' = [removeFailed EXCEPT ![w] = TRUE]
          /\ UNCHANGED tmp
    /\ pc' = [pc EXCEPT ![w] = "ret_err"]
    /\ UNCHANGED aux
    /\ UNCHANGED <<windows, append, dest, lockFile, holders, snap, lockOrder, initDest, initTmp>>

\* if let Err(err) = write_result { let _ = fs::remove_file(&tmp_path); ... }
Cleanup(w) ==
    /\ pc[w] = "cleanup"
    /\ \/ /\ tmp' = [tmp EXCEPT ![w] = NoFile]
          /\ UNCHANGED removeFailed
       \/ /\ tmp[w].exists
          /\ removeFailed' = [removeFailed EXCEPT ![w] = TRUE]
          /\ UNCHANGED tmp
    /\ pc' = [pc EXCEPT ![w] = "ret_err"]
    /\ UNCHANGED aux
    /\ UNCHANGED <<windows, append, dest, lockFile, holders, snap, lockOrder, initDest, initTmp>>

\* lock_file.unlock().ok(): an error of the unlock is dropped.
Unlock(w) ==
    /\ pc[w] = "unlock"
    /\ \/ holders' = holders \ {w}
       \/ UNCHANGED holders
    /\ pc' = [pc EXCEPT ![w] = "ret_ok"]
    /\ UNCHANGED aux
    /\ UNCHANGED <<windows, append, dest, tmp, lockFile, snap, lockOrder, initDest, initTmp, removeFailed>>

\* The lock outlives the return (the handle is leaked, not closed).
DropLockFileLeaked(w) == holders

\* The handles a return from run() drops: lock_file is closed, which gives
\* the lock up if it is still held.
DropLockFile(w) == holders \ {w}

\* return Err(err) / Ok(()): run() returns and its locals are dropped.
Return(w) ==
    /\ pc[w] \in {"ret_ok", "ret_err"}
    /\ holders' = DropLockFile(w)
    /\ snap' = [snap EXCEPT ![w] = NoFile]
    /\ pc' = [pc EXCEPT ![w] = IF pc[w] = "ret_ok" THEN "done_ok" ELSE "done_err"]
    /\ UNCHANGED aux
    /\ UNCHANGED <<windows, append, dest, tmp, lockFile, lockOrder, initDest, initTmp, removeFailed>>

Next ==
    \E w \in Writers :
        \/ OpenLock(w)
        \/ LockExclusive(w)
        \/ Canonicalize(w)
        \/ CreateTemp(w)
        \/ CopyExisting(w)
        \/ WriteRecord(w)
        \/ Sync(w)
        \/ WinRemove(w)
        \/ Rename(w)
        \/ Cleanup(w)
        \/ Unlock(w)
        \/ Return(w)

Spec == Init /\ [][Next]_vars

(***************************************************************************)
(* What a reader of the destination expects.                               *)
(***************************************************************************)
\* A captured stream as the parser returns it: without its final "\n".
NormalizeTrailingNewline(bytes) ==
    IF bytes # <<>> /\ bytes[Len(bytes)] = NL THEN Take(bytes, Len(bytes) - 1) ELSE bytes

\* The text of the COMMAND block of record r.
DisplayCommand(r) ==
    IF r.command.kind = "Script" THEN r.command.content
    ELSE <<"$", SP>> \o r.command.line

\* The parsed record p carries the status, exit code, command and output of r.
Matches(p, r) ==
    /\ MetaGet(p.meta, <<"status">>) = <<r.status>>
    /\ MetaGet(p.meta, <<"exit_code">>) = <<ToString(r.exit_code)>>
    /\ p.command = NormalizeTrailingNewline(DisplayCommand(r))
    /\ p.stdout = NormalizeTrailingNewline(r.stdout)
    /\ p.stderr = NormalizeTrailingNewline(r.stderr)

\* Writer w's rename has replaced the destination.
Renamed(w) == pc[w] \in {"unlock", "ret_ok", "done_ok"}

\* The destination a successful write of w leaves when it found `before`.
AfterWrite(w, before) ==
    File((IF append[w] THEN before.data ELSE <<>>) \o EncodeRecord(RecordOf(w)))

RECURSIVE IsWholeRecords(_)
\* data is a concatenation of whole encoded records of the model.
IsWholeRecords(data) ==
    \/ data = <<>>
    \/ \E i \in 0..NumWriters :
          /\ IsPrefix(EncodeRecord(RecordOf(i)), data)
          /\ IsWholeRecords(Drop(data, Len(EncodeRecord(RecordOf(i)))))

(***************************************************************************)
(* Claims.                                                                 *)
(***************************************************************************)
\* C1: when all N writers ran in append mode and all have succeeded, the
\* destination parses without error, holds exactly N records more than it
\* held at the start, and holds the record of every writer exactly once with
\* status, exit code, command, stdout and stderr intact.
C1_ParallelAppendKeepsAllRecords ==
    ((\A w \in Writers : append[w]) /\ (\A w \in Writers : pc[w] = "done_ok"))
    => LET res == parse_str(dest.data)
           init == parse_str(initDest.data)
       IN  /\ dest.exists
           /\ res.ok
           /\ Len(res.records) = NumWriters + Len(init.records)
           /\ \A w \in Writers :
                 Cardinality({i \in 1..Len(res.records) :
                                 Matches(res.records[i], RecordOf(w))}) = 1

\* Witness of C1: every writer appended to a destination that did not exist,
\* and every writer succeeded.
C1_Witness ==
    /\ NumWriters >= 2
    /\ ~initDest.exists
    /\ \A w \in Writers : append[w] /\ pc[w] = "done_ok"
    /\ Len(parse_str(dest.data).records) = NumWriters

\* C2: at most one writer is inside the critical section (temp creation,
\* copy, record write, sync, rename), and a writer inside it holds the
\* exclusive lock, alone.
C2_MutualExclusion ==
    /\ \A v, w \in Writers : InCritical(v) /\ InCritical(w) => v = w
    /\ \A w \in Writers : InCritical(w) => holders = {w}

\* Witness of C2: one writer is in the critical section while another one
\* is blocked in lock_exclusive.
C2_Witness ==
    \E v, w \in Writers : v # w /\ pc[v] = "write" /\ pc[w] = "lock" /\ holders = {v}

\* C3: on a platform with atomic rename-over-existing, the destination is at
\* every moment absent or a concatenation of whole encoded records, and while
\* a writer holds the lock it is either what that writer found when it took
\* the lock or the complete result of its write.
C3_DestinationNeverPartial ==
    ~windows =>
        /\ dest.exists => IsWholeRecords(dest.data)
        /\ \A w \in Writers :
              w \in holders =>
                  IF Renamed(w) THEN dest = AfterWrite(w, snap[w]) ELSE dest = snap[w]

\* Witness of C3: a writer's temporary file holds a partly written record
\* while the destination still holds the whole record written before.
C3_Witness ==
    \E w \in Writers :
        /\ ~windows
        /\ pc[w] = "cleanup"
        /\ tmp[w].exists
        /\ ~IsWholeRecords(tmp[w].data)
        /\ dest.exists /\ dest.data # <<>>
\* The position of writer w in the lock order (0: it never took the lock).
LockPos(w) ==
    IF \E i \in 1..Len(lockOrder) : lockOrder[i] = w
    THEN CHOOSE i \in 1..Len(lockOrder) : lockOrder[i] = w
    ELSE 0

\* The records of the writers whose rename is done, encoded, in lock order.
RenamedInLockOrder ==
    Flatten([i \in 1..Len(lockOrder) |->
                IF Renamed(lockOrder[i]) THEN EncodeRecord(RecordOf(lockOrder[i]))
                ELSE <<>>])

\* C4 as claimed: a write attempt that has failed after it took the lock has
\* left the destination as it was when it took the lock.
C4_FailureLeavesDestination ==
    \A w \in Writers : pc[w] \in {"cleanup", "ret_err"} => dest = snap[w]

\* C4, amended: the same, on a platform with atomic rename-over-existing.
C4_FailureLeavesDestinationAtomicRename ==
    ~windows => C4_FailureLeavesDestination

\* Witness of C4: the rename of a complete temporary file has failed over a
\* destination that holds a record.
C4_Witness ==
    \E w \in Writers :
        /\ ~windows
        /\ pc[w] = "cleanup"
        /\ tmp[w].exists
        /\ tmp[w].data = AfterWrite(w, snap[w]).data
        /\ snap[w].exists /\ snap[w].data # <<>>

\* C5 as claimed: after a failed attempt and after a successful one the
\* temporary file of the attempt is gone, so a temporary file exists only
\* while its writer is inside the protocol.
C5_NoTempFileRemains ==
    \A w \in Writers :
        /\ pc[w] \in {"ret_err", "done_err", "unlock", "ret_ok", "done_ok"}
              => ~tmp[w].exists
        /\ tmp[w].exists => InCritical(w) \/ pc[w] = "cleanup"

\* C5, amended: the same unless the remove_file of the error path itself
\* failed, which is the only way a temporary file outlives its attempt.
C5_NoTempFileRemainsUnlessRemoveFailed ==
    \A w \in Writers :
        /\ (pc[w] \in {"ret_err", "done_err"} /\ ~removeFailed[w]) => ~tmp[w].exists
        /\ pc[w] \in {"unlock", "ret_ok", "done_ok"} => ~tmp[w].exists
        /\ tmp[w].exists => InCritical(w) \/ pc[w] = "cleanup" \/ removeFailed[w]
        /\ removeFailed[w] => pc[w] \in {"ret_err", "done_err"}

\* Witness of C5: a writer failed after it had written to its temporary file,
\* removed the file and returned the error.
C5_Witness ==
    \E w \in Writers :
        /\ pc[w] = "done_err"
        /\ LockPos(w) > 0
        /\ ~removeFailed[w]
        /\ ~tmp[w].exists
        /\ \E v \in Writers : v # w /\ pc[v] = "cleanup" /\ tmp[v].data # <<>>

\* C6: a writer that has returned from run(), with Ok or with any error, does
\* not hold the lock, so the lock is free once every holder has returned.
C6_LockReleasedOnReturn ==
    \A w \in Writers : Returned(w) => w \notin holders

\* Witness of C6: a writer failed while it held the lock, and a writer that
\* took the lock after it has completed its write.
C6_Witness ==
    \E v, w \in Writers :
        /\ pc[v] = "done_err"
        /\ LockPos(v) > 0
        /\ LockPos(w) > LockPos(v)
        /\ pc[w] = "done_ok"

\* C7: a successful append of record R to a destination with content C
\* leaves exactly C followed by encode(R), which parses to the records of C
\* followed by R.
C7_AppendIsConcatenation ==
    \A w \in Writers :
        (pc[w] = "unlock" /\ append[w]) =>
            /\ dest = File(snap[w].data \o EncodeRecord(RecordOf(w)))
            /\ LET a == parse_str(snap[w].data)
                   b == parse_str(dest.data)
               IN  /\ a.ok /\ b.ok
                   /\ Len(b.records) = Len(a.records) + 1
                   /\ SubSeq(b.records, 1, Len(a.records)) = a.records
                   /\ Matches(b.records[Len(b.records)], RecordOf(w))

\* Witness of C7: writer v wrote record A to a fresh path, writer w then
\* appended record B, and the file parses to [A, B].
C7_Witness ==
    \E v, w \in Writers :
        /\ ~initDest.exists
        /\ lockOrder = <<v, w>>
        /\ ~append[v] /\ pc[v] = "done_ok"
        /\ append[w] /\ pc[w] = "unlock"
        /\ LET b == parse_str(dest.data)
           IN  /\ Len(b.records) = 2
               /\ Matches(b.records[1], RecordOf(v))
               /\ Matches(b.records[2], RecordOf(w))

\* C8 as claimed: when every writer appends, the copy of a lock holder is the
\* initial content followed by the whole records of the earlier successful
\* holders in lock order, and so is the destination whenever the lock is free.
C8_AppendsFollowLockOrder ==
    (\A w \in Writers : append[w]) =>
        /\ \A w \in Writers :
              pc[w] = "write" => tmp[w].data = initDest.data \o RenamedInLockOrder
        /\ holders = {} =>
              /\ dest.data = initDest.data \o RenamedInLockOrder
              /\ dest.exists <=> (initDest.exists \/ \E w \in Writers : Renamed(w))

\* C8, amended: the same, on a platform with atomic rename-over-existing.
C8_AppendsFollowLockOrderAtomicRename ==
    ~windows => C8_AppendsFollowLockOrder

\* Witness of C8: two appends have succeeded one after the other and the
\* second record follows the first in the file.
C8_Witness ==
    \E v, w \in Writers :
        /\ ~windows
        /\ \A u \in Writers : append[u]
        /\ v # w
        /\ pc[v] = "done_ok" /\ pc[w] = "done_ok"
        /\ LockPos(v) < LockPos(w)
        /\ holders = {}
        /\ IsPrefix(initDest.data \o EncodeRecord(RecordOf(v)) \o EncodeRecord(RecordOf(w)),
                    dest.data)

\* C9: a write to a destination that does not exist leaves exactly the one
\* new record there, in append mode as in create mode.
C9_AppendToMissingCreates ==
    \A w \in Writers :
        (pc[w] = "unlock" /\ ~snap[w].exists) =>
            /\ dest = File(EncodeRecord(RecordOf(w)))
            /\ LET b == parse_str(dest.data)
               IN  b.ok /\ Len(b.records) = 1 /\ Matches(b.records[1], RecordOf(w))

\* Witness of C9: an append-mode writer found no destination and has
\* completed its rename.
C9_Witness ==
    \E w \in Writers :
        /\ append[w]
        /\ pc[w] = "unlock"
        /\ ~snap[w].exists
        /\ dest.exists

\* C10 as claimed: after every successful run the previous content of the
\* destination is a prefix of its new content.
C10_FileOnlyGrows ==
    \A w \in Writers :
        pc[w] = "unlock" =>
            /\ dest.exists
            /\ IsPrefix(snap[w].data, dest.data)
            /\ Len(dest.data) > Len(snap[w].data)

\* C10, amended: after every successful run in append mode the previous
\* content of the destination is a proper prefix of its new content.
C10_FileOnlyGrowsInAppendMode ==
    \A w \in Writers :
        (pc[w] = "unlock" /\ append[w]) =>
            /\ dest.exists
            /\ IsPrefix(snap[w].data, dest.data)
            /\ Len(dest.data) > Len(snap[w].data)

\* Witness of C10: an append has succeeded on a destination that held a
\* record.
C10_Witness ==
    \E w \in Writers :
        /\ pc[w] = "unlock"
        /\ append[w]
        /\ snap[w].exists /\ snap[w].data # <<>>

(***************************************************************************)
(* The other components do not run while one of them is checked.           *)
(***************************************************************************)
\* No writer runs: every run() has returned and left nothing behind.
WritersIdle ==
    /\ windows = FALSE
    /\ append = [w \in Writers |-> FALSE]
    /\ pc = [w \in Writers |-> "done_ok"]
    /\ dest = NoFile
    /\ tmp = [w \in Writers |-> NoFile]
    /\ lockFile = NoFile
    /\ holders = {}
    /\ snap = [w \in Writers |-> NoFile]
    /\ lockOrder = <<>>
    /\ initDest = NoFile
    /\ initTmp = [w \in Writers |-> NoFile]
    /\ removeFailed = [w \in Writers |-> FALSE]
    /\ spawnFailed = {}

(***************************************************************************)
(* write_record followed by parse_str, for records built from bounded      *)
(* inputs: both command variants, every combination of the optional META   *)
(* fields, and captured streams whose lines may be blank or an end marker. *)
(***************************************************************************)
\* The longest captured stream, in tokens.
MaxBufLen == 3

\* What a captured stream is made of: a word, a line break, an end marker,
\* a begin marker.
BufAlphabet == {"x", NL, MARK_END, MARK_STDOUT}

\* The captured streams of the model.
Buffers == UNION {[1..n -> BufAlphabet] : n \in 0..MaxBufLen}

\* Streams as an ordinary child writes them: nothing, a line with and
\* without its final line break.
PlainBuffers == {<<>>, <<"warn">>, <<"warn", NL>>}

\* The captured stdout and stderr of a run: any stream next to a plain one.
StreamPairs == (Buffers \X PlainBuffers) \cup (PlainBuffers \X Buffers)

\* The two variants of RommyCommand as run() builds them for display.
Commands ==
    {CmdLine(<<"echo", SP, "hi">>),
     CmdScript(<<"/work/s.sh">>,
               <<"#!/usr/bin/env", SP, "bash", NL, "echo", SP, "hi", NL, NL>>)}

\* The exit codes of the model: success and failure.
ExitCodes == {0, 1}

\* An optional META field: absent or present.
OptionsOf(t) == {None, Some(t)}

\* The arguments run() passes to write_record.
RunRecord(command, exit_code, stdout, stderr, label, user, host) ==
    [RecordOf(1) EXCEPT !.command = command,
                        !.status = StatusStr(exit_code),
                        !.exit_code = exit_code,
                        !.stdout = stdout,
                        !.stderr = stderr,
                        !.label = label,
                        !.user = user,
                        !.host = host]

\* The records of the codec specification.
RunRecords ==
    {RunRecord(c, e, s[1], s[2], l, u, h) :
        c \in Commands, e \in ExitCodes, s \in StreamPairs,
        l \in OptionsOf(<<"nightly">>), u \in OptionsOf(<<"alice">>),
        h \in OptionsOf(<<"box">>)}

CodecInit ==
    /\ codec \in {[phase |-> "built", rec |-> r, calls |-> <<>>, text |-> <<>>,
                   parsed |-> parse_str(<<>>)] : r \in RunRecords}
    /\ WritersIdle
    /\ feed = Idle
    /\ capture = Idle
    /\ validation = Idle

\* write_record(&mut temp, ...) runs to its end.
Encode ==
    /\ codec.phase = "built"
    /\ codec' = [codec EXCEPT !.phase = "encoded",
                              !.calls = WriteCalls(codec.rec),
                              !.text = EncodeRecord(codec.rec)]
    /\ UNCHANGED <<writerVars, spawnFailed, feed, capture, validation>>

\* parse_str on the text of the file.
Parse ==
    /\ codec.phase = "encoded"
    /\ codec' = [codec EXCEPT !.phase = "parsed", !.parsed = parse_str(codec.text)]
    /\ UNCHANGED <<writerVars, spawnFailed, feed, capture, validation>>

CodecNext == Encode \/ Parse

SpecCodec == CodecInit /\ [][CodecNext]_vars

\* C11: parse_str applied to the encoder's output yields exactly one record
\* whose status, exit code, command, stdout and stderr match the original
\* (stdout and stderr compared after trailing-newline normalization), for
\* every record, including those whose streams hold blank lines or lines
\* equal to a block marker.
C11_RoundTrip ==
    codec.phase = "parsed" =>
        /\ codec.parsed.ok
        /\ Len(codec.parsed.records) = 1
        /\ Matches(codec.parsed.records[1], codec.rec)

(***************************************************************************)
(* parse_str fed one line at a time.  feed.p holds the locals of the loop; *)
(* feed.counts counts, for the record that is open, the blocks of each     *)
(* kind the input has closed with an end marker, and feed.built keeps      *)
(* those counts for every record the parser has pushed.                    *)
(***************************************************************************)
\* The longest input, in lines.
MaxLines == 10

\* The most lines of an input that are neither a marker nor blank.
MaxPlain == 1

\* The lines of the model: the five markers, a "key: value" line, a blank.
FeedLines ==
    {<<MARK_META>>, <<MARK_COMMAND>>, <<MARK_STDOUT>>, <<MARK_STDERR>>,
     <<MARK_END>>, <<"k", COLON, SP, "v">>, <<>>}

\* The four block kinds in the order finish_record reports them.
BlockKinds == <<"Meta", "Command", "Stdout", "Stderr">>

\* The name finish_record gives a block kind in its error.
BlockName == [Meta |-> "META", Command |-> "COMMAND",
              Stdout |-> "STDOUT", Stderr |-> "STDERR"]

\* No block closed yet.
NoBlocks == [Meta |-> 0, Command |-> 0, Stdout |-> 0, Stderr |-> 0]

\* The line is neither a begin marker, nor an end marker, nor blank.
IsPlainLine(line) ==
    from_marker(line) = "None" /\ Trim(line) # <<MARK_END>> /\ Trim(line) # <<>>

\* Besides the locals of the loop (feed.p) the model keeps what the input
\* was: the block kinds the open record has closed, in order (order), and
\* those of every pushed record (builtOrder); the lines fed since the begin
\* marker of the last block (lines); the positions of the META markers that
\* started a record (metaAt), and for every pushed record the positions of
\* its META marker and of the line that finalized it (spans); the number of
\* lines fed that are META begin markers (metas), and whether a COMMAND,
\* STDOUT or STDERR begin marker was met while no record was open (stray).
FeedInit ==
    /\ feed = [phase |-> "feeding", p |-> ParserInit, n |-> 0, plain |-> 0,
               counts |-> NoBlocks, built |-> <<>>,
               lastFin |-> "none", finCounts |-> NoBlocks,
               order |-> <<>>, builtOrder |-> <<>>, lines |-> <<>>,
               metaAt |-> <<>>, spans |-> <<>>, metas |-> 0, stray |-> FALSE]
    /\ WritersIdle
    /\ codec = Idle
    /\ capture = Idle
    /\ validation = Idle

\* One iteration of `for raw_line in lines` on the feed f.
FeedStep(f, line) ==
    LET p == f.p
        q == ParseLine(p, line)
        b == from_marker(line)
        \* finish_record is called: a META marker while a record is open
        fin == b = "Meta" /\ p.state = "Idle" /\ p.open
        starts == b = "Meta" /\ p.state = "Idle" /\ q.err = ""
        enters == q.err = "" /\ p.state = "Idle" /\ q.state = "InBlock"
        closes == b = "None" /\ Trim(line) = <<MARK_END>> /\ p.state = "InBlock"
        inside == b = "None" /\ Trim(line) # <<MARK_END>> /\ p.state = "InBlock"
        pushed == fin /\ q.err = ""
    IN  [f EXCEPT
           !.p = q,
           !.n = @ + 1,
           !.plain = IF IsPlainLine(line) THEN @ + 1 ELSE @,
           !.counts = IF starts THEN NoBlocks
                      ELSE IF closes THEN [@ EXCEPT ![p.block] = @ + 1]
                      ELSE @,
           !.built = IF pushed THEN Append(@, f.counts) ELSE @,
           !.lastFin = IF ~fin THEN @
                       ELSE IF q.err = "" THEN "ok" ELSE "failed",
           !.finCounts = IF fin THEN f.counts ELSE @,
           !.order = IF starts THEN <<>>
                     ELSE IF closes THEN Append(@, p.block)
                     ELSE @,
           !.builtOrder = IF pushed THEN Append(@, f.order) ELSE @,
           !.lines = IF enters THEN <<>>
                     ELSE IF inside THEN Append(@, line)
                     ELSE @,
           !.metaAt = IF starts THEN Append(@, f.n + 1) ELSE @,
           !.metas = IF b = "Meta" THEN @ + 1 ELSE @,
           !.stray = @ \/ (b \notin {"None", "Meta"} /\ p.state = "Idle" /\ ~p.open),
           !.spans = IF pushed
                     THEN Append(@, [from |-> f.metaAt[Len(f.metaAt)],
                                     to |-> f.n + 1])
                     ELSE @]

\* The match on the state after the loop, on the feed f.
FeedEofStep(f) ==
    LET p == f.p
        q == ParseEof(p)
        fin == p.state = "Idle" /\ p.open
        pushed == fin /\ q.err = ""
    IN  [f EXCEPT
           !.phase = "eof",
           !.p = q,
           !.built = IF pushed THEN Append(@, f.counts) ELSE @,
           !.lastFin = IF ~fin THEN @
                       ELSE IF q.err = "" THEN "ok" ELSE "failed",
           !.finCounts = IF fin THEN f.counts ELSE @,
           !.builtOrder = IF pushed THEN Append(@, f.order) ELSE @,
           !.spans = IF pushed
                     THEN Append(@, [from |-> f.metaAt[Len(f.metaAt)],
                                     to |-> f.n + 1])
                     ELSE @]

\* The loop takes one more line, any line of the model.
FeedLine(line) ==
    /\ feed.phase = "feeding"
    /\ feed.p.err = ""
    /\ feed.n < MaxLines
    /\ IsPlainLine(line) => feed.plain < MaxPlain
    /\ feed' = FeedStep(feed, line)
    /\ UNCHANGED <<writerVars, spawnFailed, codec, capture, validation>>

\* The end of the input.
FeedEof ==
    /\ feed.phase = "feeding"
    /\ feed.p.err = ""
    /\ feed' = FeedEofStep(feed)
    /\ UNCHANGED <<writerVars, spawnFailed, codec, capture, validation>>

FeedNext ==
    \/ \E line \in FeedLines : FeedLine(line)
    \/ FeedEof

SpecFeed == FeedInit /\ [][FeedNext]_vars

\* The names of the block kinds of which counts c holds no closed block.
ExpectedMissing(c) ==
    LET sel == SelectSeq(BlockKinds, LAMBDA b : c[b] = 0)
    IN  [i \in 1..Len(sel) |-> BlockName[sel[i]]]

\* C12: finalizing a record (at the next META marker or at the end of the
\* input) succeeds only if each of the four block kinds was closed with an
\* end marker for that record; otherwise it fails with the "missing
\* block(s)" error, which names exactly the block kinds that are missing.
C12_FinishNeedsAllFourBlocks ==
    feed.lastFin # "none" =>
        /\ feed.lastFin = "ok" <=> ExpectedMissing(feed.finCounts) = <<>>
        /\ feed.lastFin = "failed" =>
              /\ feed.p.err = "incomplete record: missing block(s)"
              /\ feed.p.missing = ExpectedMissing(feed.finCounts)

\* The input of the test: META, COMMAND and STDOUT blocks, no STDERR block;
\* the error names STDERR alone.
C12_Witness ==
    /\ feed.phase = "eof"
    /\ feed.lastFin = "failed"
    /\ feed.finCounts = [Meta |-> 1, Command |-> 1, Stdout |-> 1, Stderr |-> 0]
    /\ feed.p.missing = <<"STDERR">>

\* The text t holds sub as a run of consecutive tokens.
Contains(t, sub) ==
    \E i \in 1..(Len(t) - Len(sub) + 1) : SubSeq(t, i, i + Len(sub) - 1) = sub

\* The newline the claim expects after a captured stream.
ExpectedPad(bytes) ==
    IF bytes # <<>> /\ bytes[Len(bytes)] # NL THEN <<NL>> ELSE <<>>

\* The number of tokens written before write call k.
CallOffset(calls, k) == Len(Flatten(SubSeq(calls, 1, k - 1)))

\* C13: the encoder writes each captured stream unchanged and then exactly
\* one newline if and only if the stream is non-empty and does not end in
\* a newline, so every end marker the encoder writes starts at the
\* beginning of its own line.
C13_StreamBytesThenNewline ==
    codec.phase \in {"encoded", "parsed"} =>
        /\ Drop(codec.text,
                Len(Flatten(MetaCalls(codec.rec) \o CommandCalls(codec.rec))))
           = <<MARK_STDOUT, NL>> \o codec.rec.stdout \o ExpectedPad(codec.rec.stdout)
             \o <<MARK_END, NL>>
             \o <<MARK_STDERR, NL>> \o codec.rec.stderr \o ExpectedPad(codec.rec.stderr)
             \o <<MARK_END, NL>>
        /\ \A k \in 1..Len(codec.calls) :
              codec.calls[k] = <<MARK_END, NL>> =>
                  /\ CallOffset(codec.calls, k) > 0
                  /\ codec.text[CallOffset(codec.calls, k)] = NL

\* stdout "x" is encoded as "<<<STDOUT>>>\nx\n<<<END>>>".
C13_Witness ==
    /\ codec.phase = "encoded"
    /\ codec.rec.stdout = <<"x">>
    /\ Contains(codec.text, <<MARK_STDOUT, NL, "x", NL, MARK_END, NL>>)

\* The line is a begin marker or the end marker.
IsMarkerLine(line) == from_marker(line) # "None" \/ Trim(line) = <<MARK_END>>

\* The marker lines of a text, in order, each without surrounding whitespace.
MarkerLines(t) ==
    LET sel == SelectSeq(SplitLines(t), IsMarkerLine)
    IN  [i \in 1..Len(sel) |-> Trim(sel[i])]

\* C14: every record the writer emits holds exactly one block of each kind,
\* in the order META, COMMAND, STDOUT, STDERR, each opened by its begin
\* marker and closed by the end marker, for both command variants and every
\* combination of the optional fields.
C14_OneBlockOfEachKindInOrder ==
    codec.phase \in {"encoded", "parsed"} =>
        MarkerLines(codec.text)
        = <<<<MARK_META>>, <<MARK_END>>, <<MARK_COMMAND>>, <<MARK_END>>,
            <<MARK_STDOUT>>, <<MARK_END>>, <<MARK_STDERR>>, <<MARK_END>>>>

\* One closed block of each kind.
OneOfEach == [Meta |-> 1, Command |-> 1, Stdout |-> 1, Stderr |-> 1]

\* C15: every record parse_str returns was built from exactly one block of
\* each of the four kinds; input in which a block kind occurs more than
\* once within one record is not accepted as a well-formed record.
C15_RecordsHaveOneBlockOfEachKind ==
    /\ Len(feed.built) = Len(feed.p.out)
    /\ \A i \in 1..Len(feed.built) : feed.built[i] = OneOfEach

(***************************************************************************)
(* The capture engine, spawn_and_stream.  The child, and a process it may  *)
(* leave behind that inherited its stdout and stderr, write to the two     *)
(* pipes; a pipe is at end-of-stream once it is empty and no process holds *)
(* its write end.  With stream = TRUE two tee workers drain the pipes and  *)
(* relay to the terminal; otherwise wait_with_output drains them.          *)
(***************************************************************************)
\* The most writes the child and the process it left behind make in all.
MaxWrites == 2

\* The size of the read buffer, in tokens (8192 bytes in the program).
BufSize == 2

YELLOW == "\\x1b[33m"
RESET == "\\x1b[0m"

\* The two streams of the child.
Streams == {"out", "err"}

\* A value for each of the two streams.
Both(v) == [out |-> v, err |-> v]

\* What the child's exit status can be: exit code 0, exit code 1, death
\* by a signal.
ExitStatuses == {"exit 0", "exit 1", "signal"}

\* status.code().unwrap_or(-1)
ExitCodeOf(status) ==
    IF status = "exit 0" THEN 0 ELSE IF status = "exit 1" THEN 1 ELSE -1

\* colorize_each_chunk of the tee of stream s: tee(r, io::stdout(), false)
\* and tee(r, io::stderr(), colors).
Colorize(s, colors) == IF s = "err" THEN colors ELSE FALSE

\* What tee writes to the terminal for one chunk.
Relayed(chunk, colorize) ==
    IF colorize THEN <<YELLOW>> \o chunk \o <<RESET>> ELSE chunk

\* The capture holds what was sent to the terminal.
CapturedAsRelayed(chunk, colorize) == Relayed(chunk, colorize)

\* all.extend_from_slice(&buf[..n]): what tee keeps of one chunk.
Captured(chunk, colorize) == chunk

\* No process holds the write end of the pipes any more.
WriteEndsClosed == ~capture.childAlive /\ capture.bg # "alive"

\* read() returns Ok(0) on stream s.
AtEof(s) == capture.pipe[s] = <<>> /\ WriteEndsClosed

CaptureInit ==
    /\ capture \in {[stream |-> st, colors |-> co,
                     childAlive |-> TRUE, bg |-> "none", status |-> "none",
                     nwrites |-> 0, pipe |-> Both(<<>>), written |-> Both(<<>>),
                     pc |-> "start", wpc |-> Both("idle"),
                     all |-> Both(<<>>), reads |-> Both(<<>>), term |-> Both(<<>>),
                     readErr |-> FALSE, errOn |-> {}, log |-> Both(<<>>),
                     result |-> [stdout |-> <<>>, stderr |-> <<>>, code |-> 0]] :
                    st \in BOOLEAN, co \in BOOLEAN}
    /\ WritersIdle
    /\ codec = Idle
    /\ feed = Idle
    /\ validation = Idle

\* A process that holds the write end of pipe s writes to it.
PipeWrite(s) ==
    LET tok == "b" \o ToString(capture.nwrites + 1)
    IN  capture' = [capture EXCEPT !.pipe[s] = Append(@, tok),
                                   !.written[s] = Append(@, tok),
                                   !.nwrites = @ + 1]

\* The child writes to its stdout or stderr.
ChildWrite(s) ==
    /\ capture.childAlive
    /\ capture.nwrites < MaxWrites
    /\ PipeWrite(s)
    /\ UNCHANGED <<writerVars, spawnFailed, codec, feed, validation>>

\* The child starts a process that inherits its stdout and stderr
\* (`bash -lc "sleep 100 &"`).
ChildFork ==
    /\ capture.childAlive
    /\ capture.bg = "none"
    /\ capture' = [capture EXCEPT !.bg = "alive"]
    /\ UNCHANGED <<writerVars, spawnFailed, codec, feed, validation>>

\* The child exits.
ChildExit ==
    /\ capture.childAlive
    /\ \E st \in ExitStatuses :
          capture' = [capture EXCEPT !.childAlive = FALSE, !.status = st]
    /\ UNCHANGED <<writerVars, spawnFailed, codec, feed, validation>>

\* The process the child left behind writes to an inherited stream.
BackgroundWrite(s) ==
    /\ capture.bg = "alive"
    /\ capture.nwrites < MaxWrites
    /\ PipeWrite(s)
    /\ UNCHANGED <<writerVars, spawnFailed, codec, feed, validation>>

\* The process the child left behind exits.
BackgroundExit ==
    /\ capture.bg = "alive"
    /\ capture' = [capture EXCEPT !.bg = "gone"]
    /\ UNCHANGED <<writerVars, spawnFailed, codec, feed, validation>>

\* if stream { ... tee(...), tee(...) } else { child.wait_with_output() }
StartCapture ==
    /\ capture.pc = "start"
    /\ capture' = [capture EXCEPT !.pc = IF capture.stream THEN "wait" ELSE "collect",
                                  !.wpc = Both("reading")]
    /\ UNCHANGED <<writerVars, spawnFailed, codec, feed, validation>>

\* A tee that keeps a chunk only if it could relay it.
TeeReadChunkDroppingUnshown(s) ==
    /\ capture.stream
    /\ capture.wpc[s] = "reading"
    /\ \E n \in 1..BufSize :
          /\ n <= Len(capture.pipe[s])
          /\ LET chunk == Take(capture.pipe[s], n)
                 colorize == Colorize(s, capture.colors)
             IN  \E shown \in {Relayed(chunk, colorize), <<>>} :
                    capture' = [capture EXCEPT
                                  !.pipe[s] = Drop(@, n),
                                  !.term[s] = @ \o shown,
                                  !.all[s] = IF shown = <<>> THEN @
                                             ELSE @ \o Captured(chunk, colorize),
                                  !.reads[s] = Append(@, chunk),
                                  !.log[s] = @ \o <<IF shown = <<>> THEN "relay failed"
                                                    ELSE "relayed",
                                                    "appended">>]
    /\ UNCHANGED <<writerVars, spawnFailed, codec, feed, validation>>

\* tee: r.read(&mut buf) returns Ok(n), n > 0.  The writes to the terminal
\* are `let _ =`: the chunk is captured whether or not they succeed.  The
\* log of the stream records the two steps in the order the loop takes them.
TeeReadChunk(s) ==
    /\ capture.stream
    /\ capture.wpc[s] = "reading"
    /\ \E n \in 1..BufSize :
          /\ n <= Len(capture.pipe[s])
          /\ LET chunk == Take(capture.pipe[s], n)
                 colorize == Colorize(s, capture.colors)
             IN  \E shown \in {Relayed(chunk, colorize), <<>>} :
                    capture' = [capture EXCEPT
                                  !.pipe[s] = Drop(@, n),
                                  !.term[s] = @ \o shown,
                                  !.all[s] = @ \o Captured(chunk, colorize),
                                  !.reads[s] = Append(@, chunk),
                                  !.log[s] = @ \o <<IF shown = <<>> THEN "relay failed"
                                                    ELSE "relayed",
                                                    "appended">>]
    /\ UNCHANGED <<writerVars, spawnFailed, codec, feed, validation>>

\* tee: Ok(0) => break
TeeReadEof(s) ==
    /\ capture.stream
    /\ capture.wpc[s] = "reading"
    /\ AtEof(s)
    /\ capture' = [capture EXCEPT !.wpc[s] = "done"]
    /\ UNCHANGED <<writerVars, spawnFailed, codec, feed, validation>>

\* A tee whose read error is fatal to the capture.
TeeReadErrFatal(s) ==
    /\ capture.stream
    /\ capture.wpc[s] = "reading"
    /\ capture' = [capture EXCEPT !.pc = "panicked", !.readErr = TRUE,
                                  !.errOn = @ \cup {s}]
    /\ UNCHANGED <<writerVars, spawnFailed, codec, feed, validation>>

\* tee: Err(_) => break
TeeReadErr(s) ==
    /\ capture.stream
    /\ capture.wpc[s] = "reading"
    /\ capture' = [capture EXCEPT !.wpc[s] = "done", !.readErr = TRUE,
                                  !.errOn = @ \cup {s}]
    /\ UNCHANGED <<writerVars, spawnFailed, codec, feed, validation>>

\* A wait on the child that returns while the child still runs.
WaitWithoutExit ==
    /\ capture.pc = "wait"
    /\ capture' = [capture EXCEPT !.pc = "join_out",
                                  !.result.code = ExitCodeOf(capture.status)]
    /\ UNCHANGED <<writerVars, spawnFailed, codec, feed, validation>>

\* child.wait()?; status.code().unwrap_or(-1)
Wait ==
    /\ capture.pc = "wait"
    /\ ~capture.childAlive
    /\ capture' = [capture EXCEPT !.pc = "join_out",
                                  !.result.code = ExitCodeOf(capture.status)]
    /\ UNCHANGED <<writerVars, spawnFailed, codec, feed, validation>>

\* h.join() of a worker that panicked: unwrap_or_default() yields no bytes.
JoinDefault(s) == <<>>

\* h.join().unwrap_or_default(): the buffer the worker returns.
JoinResult(s) == capture.all[s]

\* let stdout_bytes = h_out.map(|h| h.join()...)
JoinOut ==
    /\ capture.pc = "join_out"
    /\ capture.wpc["out"] = "done"
    /\ capture' = [capture EXCEPT !.pc = "join_err",
                                  !.result.stdout = JoinResult("out")]
    /\ UNCHANGED <<writerVars, spawnFailed, codec, feed, validation>>

\* let stderr_bytes = h_err.map(|h| h.join()...); Ok((stdout_bytes, ...))
JoinErr ==
    /\ capture.pc = "join_err"
    /\ capture.wpc["err"] = "done"
    /\ capture' = [capture EXCEPT !.pc = "returned",
                                  !.result.stderr = JoinResult("err")]
    /\ UNCHANGED <<writerVars, spawnFailed, codec, feed, validation>>

\* wait_with_output: read2 takes a chunk from pipe s.
CollectChunk(s) ==
    /\ capture.pc = "collect"
    /\ capture.wpc[s] = "reading"
    /\ \E n \in 1..BufSize :
          /\ n <= Len(capture.pipe[s])
          /\ capture' = [capture EXCEPT
                           !.pipe[s] = Drop(@, n),
                           !.all[s] = @ \o Take(capture.pipe[s], n),
                           !.reads[s] = Append(@, Take(capture.pipe[s], n))]
    /\ UNCHANGED <<writerVars, spawnFailed, codec, feed, validation>>

\* wait_with_output: read2 sees the end of stream s.
CollectEof(s) ==
    /\ capture.pc = "collect"
    /\ capture.wpc[s] = "reading"
    /\ AtEof(s)
    /\ capture' = [capture EXCEPT !.wpc[s] = "done"]
    /\ UNCHANGED <<writerVars, spawnFailed, codec, feed, validation>>

\* wait_with_output: read2(...).unwrap() on a read error.
CollectErr(s) ==
    /\ capture.pc = "collect"
    /\ capture.wpc[s] = "reading"
    /\ capture' = [capture EXCEPT !.pc = "panicked", !.readErr = TRUE,
                                  !.errOn = @ \cup {s}]
    /\ UNCHANGED <<writerVars, spawnFailed, codec, feed, validation>>

\* wait_with_output: both streams read to their end, then wait();
\* Ok((output.stdout, output.stderr, code)).
CollectWait ==
    /\ capture.pc = "collect"
    /\ capture.wpc = Both("done")
    /\ ~capture.childAlive
    /\ capture' = [capture EXCEPT !.pc = "returned",
                                  !.result = [stdout |-> capture.all["out"],
                                              stderr |-> capture.all["err"],
                                              code |-> ExitCodeOf(capture.status)]]
    /\ UNCHANGED <<writerVars, spawnFailed, codec, feed, validation>>

\* The steps of the child and of the process it left behind.
ChildNext ==
    \/ \E s \in Streams : ChildWrite(s)
    \/ ChildFork
    \/ ChildExit
    \/ \E s \in Streams : BackgroundWrite(s)
    \/ BackgroundExit

\* The steps of spawn_and_stream that succeed.
CaptureProgress ==
    \/ StartCapture
    \/ \E s \in Streams : TeeReadChunk(s)
    \/ \E s \in Streams : TeeReadEof(s)
    \/ Wait
    \/ JoinOut
    \/ JoinErr
    \/ \E s \in Streams : CollectChunk(s)
    \/ \E s \in Streams : CollectEof(s)
    \/ CollectWait

\* A read of a stream fails.
CaptureFault ==
    \/ \E s \in Streams : TeeReadErr(s)
    \/ \E s \in Streams : CollectErr(s)

CaptureNext == ChildNext \/ CaptureProgress \/ CaptureFault

SpecCapture == CaptureInit /\ [][CaptureNext]_vars

\* The text holds a color escape.
HasEscape(t) == \E i \in 1..Len(t) : t[i] \in {YELLOW, RESET}

\* C16: the colorize flag affects only what is relayed to the terminal: the
\* captured buffer of each stream is the concatenation of the chunks read
\* from it, whatever the flag says, so it is the same for colorize_stderr
\* true and false; and what is relayed to stdout holds no color escape.
C16_ColorizeOnlyAffectsRelay ==
    /\ \A s \in Streams : capture.all[s] = Flatten(capture.reads[s])
    /\ ~HasEscape(capture.term["out"])

\* With colors on, a stderr chunk was relayed in color and captured, and a
\* stdout chunk was relayed.
C16_Witness ==
    /\ capture.stream
    /\ capture.colors
    /\ capture.reads["err"] # <<>>
    /\ HasEscape(capture.term["err"])
    /\ capture.all["err"] # <<>>
    /\ capture.term["out"] # <<>>

\* The threads of spawn_and_stream are scheduled: a step of the capture
\* that stays possible is taken.  Nothing is assumed of the child, of the
\* process it left behind, or of reads that fail.
CaptureFairness ==
    /\ WF_vars(StartCapture)
    /\ \A s \in Streams : WF_vars(TeeReadChunk(s)) /\ WF_vars(TeeReadEof(s))
    /\ WF_vars(Wait)
    /\ WF_vars(JoinOut)
    /\ WF_vars(JoinErr)
    /\ \A s \in Streams : WF_vars(CollectChunk(s)) /\ WF_vars(CollectEof(s))
    /\ WF_vars(CollectWait)

SpecCaptureLive == SpecCapture /\ CaptureFairness

\* C17: the capture never blocks beyond the lifetime of the child: once the
\* child has exited, in stream and in non-stream mode, the capture
\* eventually returns the two buffers and the exit code (a capture one of
\* whose reads failed is left aside).
C17_ReturnsAfterChildExit ==
    (~capture.childAlive) ~> (capture.pc = "returned" \/ capture.readErr)

\* What the child's behaviour determines: every byte written to each
\* stream, and the exit code.
FullOutput ==
    [stdout |-> capture.written["out"],
     stderr |-> capture.written["err"],
     code |-> ExitCodeOf(capture.status)]

RunInit ==
    /\ windows \in BOOLEAN
    /\ append \in [Writers -> BOOLEAN]
    /\ pc = [w \in Writers |-> "spawn"]
    /\ dest \in {NoFile, File(<<>>), File(EncodeRecord(RecordOf(0)))}
    /\ tmp = [w \in Writers |-> NoFile]
    /\ lockFile = NoFile
    /\ holders = {}
    /\ snap = [w \in Writers |-> NoFile]
    /\ lockOrder = <<>>
    /\ initDest = dest
    /\ initTmp = tmp
    /\ removeFailed = [w \in Writers |-> FALSE]
    /\ spawnFailed = {}
    /\ codec = Idle
    /\ feed = Idle
    /\ capture = Idle
    /\ validation = Idle

\* A failed spawn is noted and the run goes on as if the child had started.
SpawnUnchecked(w) ==
    /\ pc[w] = "spawn"
    /\ \/ UNCHANGED spawnFailed
       \/ spawnFailed' = spawnFailed \cup {w}
    /\ pc' = [pc EXCEPT ![w] = "capture"]
    /\ UNCHANGED <<windows, append, dest, tmp, lockFile, holders, snap, lockOrder,
                   initDest, initTmp, removeFailed, codec, feed, capture, validation>>

\* The child is started and the lock is taken at once, before the capture.
SpawnUnderLock(w) ==
    /\ pc[w] = "spawn"
    /\ holders = {}
    /\ holders' = holders \cup {w}
    /\ pc' = [pc EXCEPT ![w] = "capture"]
    /\ UNCHANGED <<windows, append, dest, tmp, lockFile, snap, lockOrder,
                   initDest, initTmp, removeFailed, spawnFailed, codec, feed, capture,
                   validation>>

\* command.spawn().with_context(|| "Failed to spawn process")?
Spawn(w) ==
    /\ pc[w] = "spawn"
    /\ \/ /\ pc' = [pc EXCEPT ![w] = "capture"]
          /\ UNCHANGED spawnFailed
       \/ /\ spawnFailed' = spawnFailed \cup {w}
          /\ pc' = [pc EXCEPT ![w] = "done_err"]
    /\ UNCHANGED <<windows, append, dest, tmp, lockFile, holders, snap, lockOrder,
                   initDest, initTmp, removeFailed, codec, feed, capture, validation>>

\* spawn_and_stream(child, stream, colors)?, the output path and
\* create_dir_all(parent)?: each can fail and return from run().
CaptureAndPrepare(w) ==
    /\ pc[w] = "capture"
    /\ \/ pc' = [pc EXCEPT ![w] = "open_lock"]
       \/ pc' = [pc EXCEPT ![w] = "done_err"]
    /\ UNCHANGED aux
    /\ UNCHANGED <<windows, append, dest, tmp, lockFile, holders, snap, lockOrder,
                   initDest, initTmp, removeFailed>>

RunNext ==
    \E w \in Writers :
        \/ Spawn(w)
        \/ CaptureAndPrepare(w)
        \/ OpenLock(w)
        \/ LockExclusive(w)
        \/ Canonicalize(w)
        \/ CreateTemp(w)
        \/ CopyExisting(w)
        \/ WriteRecord(w)
        \/ Sync(w)
        \/ WinRemove(w)
        \/ Rename(w)
        \/ Cleanup(w)
        \/ Unlock(w)
        \/ Return(w)

SpecRun == RunInit /\ [][RunNext]_vars

\* The writers that have taken the lock at some time.
EverLocked == {lockOrder[i] : i \in 1..Len(lockOrder)}

\* C19: if the child cannot be started, the run fails at once and no part
\* of the write path runs: the run takes no lock and creates no temporary
\* file, and the destination changes only through runs whose child started.
C19_SpawnFailureSkipsWritePath ==
    /\ \A w \in spawnFailed :
          /\ pc[w] = "done_err"
          /\ w \notin holders
          /\ w \notin EverLocked
          /\ ~tmp[w].exists
    /\ spawnFailed = Writers => dest = initDest /\ ~lockFile.exists
    /\ dest # initDest => EverLocked \ spawnFailed # {}

\* One run failed to start its child while another run replaced the
\* destination.
C19_Witness ==
    /\ spawnFailed # {}
    /\ spawnFailed # Writers
    /\ dest # initDest
    /\ \A w \in Writers : Returned(w)

(***************************************************************************)
(* validate: the collected files, parsed one after the other.              *)
(***************************************************************************)
\* The most files validate collects.
MaxFiles == 2

\* A file on disk: who wrote it, whether it can be read as UTF-8 text, and
\* its text.
DiskFile(origin, readable, text) ==
    [origin |-> origin, readable |-> readable, text |-> text]

\* The file of the test: a META and a COMMAND block, no STDOUT and no
\* STDERR block.
FileWithoutStreams ==
    DiskFile("other", TRUE,
             <<MARK_META, NL, "status", COLON, SP, "ok", NL, MARK_END, NL,
               MARK_COMMAND, NL, "$", SP, "echo", SP, "x", NL, MARK_END, NL>>)

\* The record of a run whose child printed the line "<<<STDOUT>>>".
RecordWithMarkerLine ==
    RunRecord(CmdLine(<<"echo", SP, MARK_STDOUT>>), 0, <<MARK_STDOUT, NL>>, <<>>,
              None, Some(<<"alice">>), Some(<<"box">>))

\* The files of the model: files the writer produced (one record, two
\* appended records, a record whose stdout holds a marker line), the file
\* of the test, an empty file, a file that cannot be read.
ValidateFiles ==
    {DiskFile("writer", TRUE, EncodeRecord(RecordOf(1))),
     DiskFile("writer", TRUE, EncodeRecord(RecordOf(1)) \o EncodeRecord(RecordOf(2))),
     DiskFile("writer", TRUE, EncodeRecord(RecordWithMarkerLine)),
     FileWithoutStreams,
     DiskFile("other", TRUE, <<>>),
     DiskFile("other", FALSE, <<>>)}

\* parse_file: read_to_string, then parse_str; TRUE when it returns Ok.
ParseFileOk(f) == f.readable /\ parse_str(f.text).ok

ValidateInit ==
    /\ validation \in {[phase |-> "collected", files |-> fs, verdicts |-> <<>>,
                        ok_count |-> 0, err_count |-> 0, result |-> "none"] :
                       fs \in UNION {[1..n -> ValidateFiles] : n \in 0..MaxFiles}}
    /\ WritersIdle
    /\ codec = Idle
    /\ feed = Idle
    /\ capture = Idle

\* anyhow::ensure!(!files.is_empty(), "No files found to validate")
EnsureFiles ==
    /\ validation.phase = "collected"
    /\ validation' = IF validation.files = <<>>
                     THEN [validation EXCEPT !.phase = "done", !.result = "failed"]
                     ELSE [validation EXCEPT !.phase = "parsing"]
    /\ UNCHANGED <<writerVars, spawnFailed, codec, feed, capture>>

\* One iteration of `for file in &files`.
ParseNextFile ==
    /\ validation.phase = "parsing"
    /\ Len(validation.verdicts) < Len(validation.files)
    /\ LET f == validation.files[Len(validation.verdicts) + 1]
       IN  validation' =
              IF ParseFileOk(f)
              THEN [validation EXCEPT !.verdicts = Append(@, "OK"), !.ok_count = @ + 1]
              ELSE [validation EXCEPT !.verdicts = Append(@, "ERR"), !.err_count = @ + 1]
    /\ UNCHANGED <<writerVars, spawnFailed, codec, feed, capture>>

\* if err_count > 0 { bail!("Validation failed: ...") }; Ok(())
FinishValidate ==
    /\ validation.phase = "parsing"
    /\ Len(validation.verdicts) = Len(validation.files)
    /\ validation' = [validation EXCEPT
                        !.phase = "done",
                        !.result = IF validation.err_count > 0 THEN "failed" ELSE "ok"]
    /\ UNCHANGED <<writerVars, spawnFailed, codec, feed, capture>>

ValidateNext == EnsureFiles \/ ParseNextFile \/ FinishValidate

SpecValidate == ValidateInit /\ [][ValidateNext]_vars

\* The collected files that parse_file rejects.
InvalidFiles == {i \in 1..Len(validation.files) : ~ParseFileOk(validation.files[i])}

\* C20: validate parses every collected file, counts the valid and the
\* invalid ones, and fails if and only if at least one file fails to parse;
\* a file the writer produced is reported valid, and a file without STDOUT
\* and STDERR blocks makes the validation fail.
C20_ValidateFailsIffAFileIsInvalid ==
    validation.phase = "done" =>
        /\ Len(validation.verdicts) = Len(validation.files)
        /\ validation.err_count = Cardinality(InvalidFiles)
        /\ validation.ok_count = Len(validation.files) - Cardinality(InvalidFiles)
        /\ validation.result = "failed" <=> InvalidFiles # {}
        /\ \A i \in 1..Len(validation.files) :
              /\ validation.files[i].origin = "writer" => validation.verdicts[i] = "OK"
              /\ validation.files[i] = FileWithoutStreams => validation.result = "failed"

(***************************************************************************)
(* The parser's loop, one line at a time (SpecFeed).                       *)
(***************************************************************************)
\* What parse_str returns when the loop has ended with the locals f.p.
FeedResult(f) ==
    [ok |-> f.p.err = "", err |-> f.p.err,
     records |-> IF f.p.err = "" THEN f.p.out ELSE <<>>]

\* C21: a begin-marker line of any kind, the kind of the open block included,
\* that the loop meets while a block is open makes parse_str fail with
\* "unexpected start of block <kind> before closing previous block"; the
\* error names the kind of the new marker, and no record is returned.
C21_BeginMarkerInsideBlockFails ==
    [][\A line \in FeedLines :
          (FeedLine(line) /\ feed.p.state = "InBlock" /\ from_marker(line) # "None")
          => /\ feed'.p.err = "unexpected start of block before closing previous block"
             /\ feed'.p.missing = <<from_marker(line)>>
             /\ ~FeedResult(feed').ok
             /\ FeedResult(feed').records = <<>>]_vars

\* A second META marker right after the META marker that follows a complete
\* record: the error names Meta, and the record already pushed is not
\* returned.
C21_Witness ==
    /\ feed.phase = "feeding"
    /\ feed.p.err = "unexpected start of block before closing previous block"
    /\ feed.p.state = "InBlock"
    /\ feed.p.block = "Meta"
    /\ feed.p.missing = <<"Meta">>
    /\ Len(feed.p.out) = 1
    /\ FeedResult(feed).records = <<>>

\* C22: when the input ends while a block of any kind is open, parse_str
\* fails with "unexpected EOF: block not closed with <<<END>>>" and returns
\* no record, however many complete records the loop had pushed before; and
\* parse_str fails with this error in no other case.
C22_EofInsideBlockFails ==
    feed.phase = "eof" =>
        /\ feed.p.state = "InBlock" <=>
              feed.p.err = "unexpected EOF: block not closed with <<<END>>>"
        /\ feed.p.state = "InBlock" =>
              /\ ~FeedResult(feed).ok
              /\ FeedResult(feed).records = <<>>

\* A complete record, then a META marker, then the end of the input: the
\* record that was pushed is not returned.
C22_Witness ==
    /\ feed.phase = "eof"
    /\ feed.p.state = "InBlock"
    /\ feed.p.err = "unexpected EOF: block not closed with <<<END>>>"
    /\ Len(feed.p.out) = 1
    /\ feed.built = <<[Meta |-> 1, Command |-> 1, Stdout |-> 1, Stderr |-> 1]>>
    /\ FeedResult(feed).records = <<>>

\* C23: within a record the blocks follow the order META, COMMAND, STDOUT,
\* STDERR: every record parse_str takes that has one block of each kind has
\* closed them in this order, a record with its blocks in another order
\* being a parse error.
C23_BlockOrderEnforced ==
    /\ Len(feed.builtOrder) = Len(feed.built)
    /\ \A i \in 1..Len(feed.builtOrder) :
          feed.built[i] = OneOfEach => feed.builtOrder[i] = BlockKinds

RECURSIVE JoinLines(_)
\* The lines ls joined with "\n".
JoinLines(ls) ==
    IF ls = <<>> THEN <<>>
    ELSE IF Len(ls) = 1 THEN ls[1]
    ELSE ls[1] \o <<NL>> \o JoinLines(Tail(ls))

\* The body the parser has accumulated for block kind b.
CurBody(p, b) ==
    IF b = "Command" THEN p.cur_cmd
    ELSE IF b = "Stdout" THEN p.cur_stdout
    ELSE p.cur_stderr

\* C24: while a COMMAND, STDOUT or STDERR block is open (the first of its
\* kind in its record), the body accumulated for it is the newline-join of
\* every line read since its begin marker, in order, blank lines included
\* wherever they stand, as first lines too.
C24_BodyIsJoinOfAllLines ==
    (/\ feed.p.err = ""
     /\ feed.p.state = "InBlock"
     /\ feed.p.block \in {"Command", "Stdout", "Stderr"}
     /\ feed.counts[feed.p.block] = 0)
    => CurBody(feed.p, feed.p.block) = JoinLines(feed.lines)

\* C25: in state Idle a COMMAND, STDOUT or STDERR begin marker met while no
\* record is open, an end marker and every line that is no marker leave the
\* parser's state, the record in progress and the output sequence as they
\* were; a COMMAND, STDOUT or STDERR begin marker met while a record is open
\* moves to InBlock(kind) and changes nothing else, and these blocks are
\* entered in no other way.
C25_IdleIgnoresNoise ==
    [][\A line \in FeedLines :
          (FeedLine(line) /\ feed.p.state = "Idle")
          => LET b == from_marker(line)
             IN  /\ (b \in {"Command", "Stdout", "Stderr"} /\ ~feed.p.open)
                       => feed'.p = feed.p
                 /\ b = "None" => feed'.p = feed.p
                 /\ (b \in {"Command", "Stdout", "Stderr"} /\ feed.p.open)
                       => feed'.p = [feed.p EXCEPT !.state = "InBlock", !.block = b]
                 /\ (feed'.p.state = "InBlock" /\ feed'.p.block # "Meta")
                       => (feed.p.open /\ b = feed'.p.block)]_vars

\* Five lines: a META marker and its end marker, two lines ignored in Idle,
\* and the STDOUT marker that is accepted because the record is open.
C25_Witness ==
    /\ feed.n = 5
    /\ feed.p.err = ""
    /\ feed.p.state = "InBlock"
    /\ feed.p.block = "Stdout"
    /\ feed.p.open
    /\ feed.metaAt = <<1>>
    /\ feed.order = <<"Meta">>
    /\ feed.lines = <<>>
    /\ feed.p.out = <<>>

(***************************************************************************)
(* parse_str on whole files (SpecFile).  A file is a sequence of parts:    *)
(* records as write_record emits them, a META block alone, and lines that  *)
(* stand between records; every line ends in "\n" or every line ends in    *)
(* "\r\n", and the last line may lack its ending.  The input is normalised *)
(* and split into lines once, then the loop takes the lines in order.      *)
(***************************************************************************)
\* The most parts of a file.
MaxParts == 3

\* The two ways a file writes its line endings.
LineEndings == {<<NL>>, <<CR, NL>>}

\* A part that is a record: its lines as write_record emits them.
RecordPart(r) ==
    [kind |-> "record", lines |-> SplitLines(EncodeRecord(r)), rec |-> r]

\* A part that is no record.
LinesPart(kind, lines) == [kind |-> kind, lines |-> lines, rec |-> RecordOf(0)]

\* The parts of the model: three records (one whose output holds a bare
\* "\r"), a META block without the other three blocks, a blank line, a
\* stray end marker.
FileParts ==
    {RecordPart(RecordOf(1)), RecordPart(RecordOf(2)),
     RecordPart(RunRecord(CmdLine(<<"progress">>), 0,
                          <<"10%", CR, "100%", NL>>, <<>>, None, None, None)),
     LinesPart("incomplete", <<<<MARK_META>>, <<"status", COLON, SP, "ok">>,
                               <<MARK_END>>>>),
     LinesPart("noise", <<<<>>>>),
     LinesPart("noise", <<<<MARK_END>>>>)}

\* The files of the model.
Files ==
    {[parts |-> ps, eol |-> e, final |-> f] :
        ps \in UNION {[1..k -> FileParts] : k \in 0..MaxParts},
        e \in LineEndings, f \in BOOLEAN}

\* The lines of the parts ps, in order.
LinesOf(ps) == Flatten([i \in 1..Len(ps) |-> ps[i].lines])

\* The text of file f: each line followed by the file's line ending, the last
\* line only if the file ends with one.
TextOf(f) ==
    LET ls == LinesOf(f.parts)
    IN  Flatten([i \in 1..Len(ls) |->
                    IF i < Len(ls) \/ f.final THEN ls[i] \o f.eol ELSE ls[i]])

\* parse_str(input) up to the loop: the input normalised and split.
FileInit ==
    /\ \E f \in Files :
          feed = [phase |-> "feeding", p |-> ParserInit, n |-> 0, plain |-> 0,
                  counts |-> NoBlocks, built |-> <<>>,
                  lastFin |-> "none", finCounts |-> NoBlocks,
                  order |-> <<>>, builtOrder |-> <<>>, lines |-> <<>>,
                  metaAt |-> <<>>, spans |-> <<>>, metas |-> 0, stray |-> FALSE,
                  file |-> f, rest |-> SplitLines(ReplaceCRLF(TextOf(f)))]
    /\ WritersIdle
    /\ codec = Idle
    /\ capture = Idle
    /\ validation = Idle

\* The loop takes the next line of the file.
FileLine ==
    /\ feed.phase = "feeding"
    /\ feed.p.err = ""
    /\ feed.rest # <<>>
    /\ feed' = [FeedStep(feed, Head(feed.rest)) EXCEPT !.rest = Tail(feed.rest)]
    /\ UNCHANGED <<writerVars, spawnFailed, codec, capture, validation>>

\* The lines are used up.
FileEof ==
    /\ feed.phase = "feeding"
    /\ feed.p.err = ""
    /\ feed.rest = <<>>
    /\ feed' = FeedEofStep(feed)
    /\ UNCHANGED <<writerVars, spawnFailed, codec, capture, validation>>

FileNext == FileLine \/ FileEof

SpecFile == FileInit /\ [][FileNext]_vars

\* The parts of ps that open with a META marker, in order.
MetaParts(ps) == SelectSeq(ps, LAMBDA part : part.kind # "noise")

\* The line number of the META marker of the i-th part of ps.
FirstLineOf(ps, i) == Len(LinesOf(SubSeq(ps, 1, i - 1))) + 1

\* The line numbers of the META markers of ps, in order.
MetaPositions(ps) ==
    LET idx == SelectSeq([i \in 1..Len(ps) |-> i], LAMBDA i : ps[i].kind # "noise")
    IN  [j \in 1..Len(idx) |-> FirstLineOf(ps, idx[j])]

\* The locals right after start_record: a record open, nothing in it, no
\* block seen, state InBlock(Meta).
FreshRecord(p) ==
    /\ p.open
    /\ p.cur_meta = {}
    /\ p.cur_cmd = <<>> /\ p.cur_stdout = <<>> /\ p.cur_stderr = <<>>
    /\ ~p.saw_meta /\ ~p.saw_command /\ ~p.saw_stdout /\ ~p.saw_stderr
    /\ p.state = "InBlock" /\ p.block = "Meta"

\* Every record pushed so far is the record of the META block of the same
\* rank in the file, and holds what that part of the file holds alone.
RecordsFollowMetaBlocks ==
    LET metas == MetaParts(feed.file.parts)
        at == MetaPositions(feed.file.parts)
    IN  /\ Len(feed.p.out) = Len(feed.spans)
        /\ Len(feed.p.out) <= Len(metas)
        /\ \A i \in 1..Len(feed.p.out) :
              /\ feed.spans[i].from = at[i]
              /\ metas[i].kind = "record"
              /\ Matches(feed.p.out[i], metas[i].rec)
              /\ <<feed.p.out[i]>> = parse_str(EncodeRecord(metas[i].rec)).records
        /\ (feed.phase = "eof" /\ feed.p.err = "") => Len(feed.p.out) = Len(metas)

\* C26: a META begin marker met in Idle first finalizes the record in
\* progress, if there is one (pushing it, or failing when a block is
\* missing), and only then starts a new record with empty bodies and the four
\* flags cleared; the records are pushed in file order, so that the i-th
\* record is the record of the i-th META block of the file and holds no body
\* line and no meta key of another record.
C26_MetaFinalizesThenStarts ==
    /\ [][(/\ feed.phase = "feeding" /\ feed.p.err = "" /\ feed.rest # <<>>
            /\ feed.p.state = "Idle" /\ from_marker(Head(feed.rest)) = "Meta")
           => IF ~feed.p.open
              THEN /\ feed'.p.out = feed.p.out
                   /\ feed'.p.err = ""
                   /\ FreshRecord(feed'.p)
              ELSE IF /\ feed.p.saw_meta /\ feed.p.saw_command
                      /\ feed.p.saw_stdout /\ feed.p.saw_stderr
              THEN /\ feed'.p.out = Append(feed.p.out,
                                           [meta |-> feed.p.cur_meta,
                                            command |-> feed.p.cur_cmd,
                                            stdout |-> feed.p.cur_stdout,
                                            stderr |-> feed.p.cur_stderr])
                   /\ feed'.p.err = ""
                   /\ FreshRecord(feed'.p)
              ELSE /\ feed'.p.out = feed.p.out
                   /\ feed'.p.err = "incomplete record: missing block(s)"]_vars
    /\ []RecordsFollowMetaBlocks

\* The end of a file of three records with a line between them: three
\* records returned, the first with a label and output on stderr, the second
\* without either.
C26_Witness ==
    /\ feed.phase = "eof"
    /\ feed.p.err = ""
    /\ Len(feed.p.out) = 3
    /\ Len(feed.file.parts) = MaxParts
    /\ Matches(feed.p.out[1], RecordOf(2))
    /\ Matches(feed.p.out[2], RecordOf(1))
    /\ MetaGet(feed.p.out[1].meta, <<"label">>) = <<"nightly">>
    /\ MetaGet(feed.p.out[2].meta, <<"label">>) = <<>>
    /\ feed.p.out[2].stderr = <<>>
    /\ feed.metaAt[2] > 1

\* The file of the feed with its line endings written as eol.
FileWith(eol) == [feed.file EXCEPT !.eol = eol]

\* C27: parse_str returns the same result, the same records or the same
\* error, for a text with every line ending written as "\r\n" and for the
\* same text with "\n" line endings; the loop over the lines of either text
\* ends in this result.
C27_LineEndingsNormalized ==
    (feed.phase = "eof" \/ feed.p.err # "") =>
        LET lf == parse_str(TextOf(FileWith(<<NL>>)))
            crlf == parse_str(TextOf(FileWith(<<CR, NL>>)))
        IN  /\ crlf = lf
            /\ FeedResult(feed) = [ok |-> lf.ok, err |-> lf.err, records |-> lf.records]
            /\ feed.p.missing = lf.missing

\* The end of a file written with "\r\n" that holds two records, one of them
\* with a bare "\r" in its output; both are returned, the "\r" kept.
C27_Witness ==
    /\ feed.phase = "eof"
    /\ feed.file.eol = <<CR, NL>>
    /\ feed.p.err = ""
    /\ Len(feed.p.out) = 2
    /\ \E i \in 1..2 : feed.p.out[i].stdout = <<"10%", CR, "100%">>
    /\ \E i \in 1..2 : Matches(feed.p.out[i], RecordOf(2))
    /\ \E i \in 1..Len(TextOf(feed.file)) - 1 :
          TextOf(feed.file)[i] = CR /\ TextOf(feed.file)[i + 1] = NL

(***************************************************************************)
(* The relay workers of spawn_and_stream (SpecCapture).                    *)
(***************************************************************************)

\* The orchestrating routine has joined the worker of stream s.
Joined(s) ==
    IF s = "out" THEN capture.pc \in {"join_err", "returned"}
    ELSE capture.pc = "returned"

\* The buffer the orchestrating routine holds for stream s.
ResultOf(s) == IF s = "out" THEN capture.result.stdout ELSE capture.result.stderr

\* C28: in stream mode the workers are joined only after the wait on the
\* child has returned, which it does only once the child has exited: until
\* then the orchestrating routine holds no byte of either buffer; a buffer
\* is taken over at the join of its worker, when the worker has ended, and
\* it is changed by its worker alone and never after the join.
C28_JoinOnlyAfterChildExit ==
    /\ [](capture.stream =>
            /\ capture.pc \in {"join_out", "join_err", "returned"} => ~capture.childAlive
            /\ \A s \in Streams :
                  IF Joined(s)
                  THEN /\ ~capture.childAlive
                       /\ capture.wpc[s] = "done"
                       /\ ResultOf(s) = capture.all[s]
                  ELSE ResultOf(s) = <<>>)
    /\ [][capture.stream =>
            \A s \in Streams :
               /\ capture'.all[s] # capture.all[s] =>
                     (capture.wpc[s] = "reading" /\ ~Joined(s))
               /\ ResultOf(s)' # ResultOf(s) =>
                     (~Joined(s) /\ Joined(s)' /\ ~capture.childAlive)]_vars

\* Stream mode has returned: both workers, each with bytes in its buffer,
\* were joined after the child's exit.
C28_Witness ==
    /\ capture.stream
    /\ capture.pc = "returned"
    /\ ~capture.childAlive
    /\ capture.result.stdout # <<>>
    /\ capture.result.stderr # <<>>
    /\ capture.result.stdout = capture.all["out"]
    /\ capture.result.stderr = capture.all["err"]

\* The record run() builds from what the capture returned.
RecordOfCapture ==
    RunRecord(CmdLine(<<"cmd">>), capture.result.code,
              capture.result.stdout, capture.result.stderr, None, None, None)

\* C29: a read error on a stream ends the relay worker of that stream as the
\* end of the stream would: its buffer keeps the chunks read up to the error
\* and is what the join returns; the worker of the other stream reads on to
\* the end of its stream; the capture does not fail, and when it has
\* returned, the record run() writes holds what was captured.
C29_ReadErrorEndsOnlyItsWorker ==
    capture.stream =>
        /\ capture.pc # "panicked"
        /\ \A s \in Streams :
              /\ s \in capture.errOn =>
                    /\ capture.wpc[s] = "done"
                    /\ capture.all[s] = Flatten(capture.reads[s])
                    /\ IsPrefix(capture.all[s], capture.written[s])
              /\ (s \notin capture.errOn /\ capture.wpc[s] = "done") =>
                    capture.all[s] = capture.written[s]
              /\ Joined(s) => ResultOf(s) = capture.all[s]
        /\ capture.pc = "returned" =>
              /\ capture.result.code = ExitCodeOf(capture.status)
              /\ Contains(EncodeRecord(RecordOfCapture),
                          <<MARK_STDOUT, NL>> \o capture.result.stdout)
              /\ Contains(EncodeRecord(RecordOfCapture),
                          <<MARK_STDERR, NL>> \o capture.result.stderr)

\* A read of stdout failed after the first of two chunks; the worker of
\* stderr read its stream to the end, and the capture returned the first
\* chunk of stdout and all of stderr.
C29_Witness ==
    /\ capture.stream
    /\ capture.pc = "returned"
    /\ capture.errOn = {"out"}
    /\ capture.result.stdout # <<>>
    /\ capture.result.stdout # capture.written["out"]
    /\ capture.result.stderr = capture.written["err"]
    /\ capture.wpc = Both("done")

\* What the relays of stream s that succeeded have sent to the terminal.
RelayedSoFar(s) ==
    Flatten([i \in 1..Len(capture.reads[s]) |->
                IF capture.log[s][2 * i - 1] = "relayed"
                THEN Relayed(capture.reads[s][i], Colorize(s, capture.colors))
                ELSE <<>>])

\* C30: within a stream the order of the bytes is kept: at every point the
\* buffer of a worker is the concatenation, in read order, of the chunks
\* read so far from its stream, which are the bytes written to the stream
\* in the order they were written; each chunk is relayed to the terminal
\* before it is appended to the buffer, and a chunk whose relay failed is in
\* the buffer all the same.
C30_StreamOrderPreserved ==
    \A s \in Streams :
        /\ capture.all[s] = Flatten(capture.reads[s])
        /\ Flatten(capture.reads[s]) \o capture.pipe[s] = capture.written[s]
        /\ capture.stream =>
              /\ Len(capture.log[s]) = 2 * Len(capture.reads[s])
              /\ \A i \in 1..Len(capture.reads[s]) :
                    /\ capture.log[s][2 * i - 1] \in {"relayed", "relay failed"}
                    /\ capture.log[s][2 * i] = "appended"
              /\ capture.term[s] = RelayedSoFar(s)

\* Two chunks read from one stream, the relay of the first failed, that of
\* the second succeeded: the buffer holds both, in order.
C30_Witness ==
    /\ capture.stream
    /\ \E s \in Streams :
          /\ Len(capture.reads[s]) = 2
          /\ capture.log[s] = <<"relay failed", "appended", "relayed", "appended">>
          /\ capture.all[s] = capture.reads[s][1] \o capture.reads[s][2]
          /\ capture.all[s] = capture.written[s]
          /\ capture.term[s] = Relayed(capture.reads[s][2], Colorize(s, capture.colors))

(***************************************************************************)
(* The sidecar lock file.                                                  *)
(***************************************************************************)

\* The names of the three paths of one destination, as the tokens that
\* format!() joins: out_path's file name, the lock path, a temporary path.
out_name == <<"out.rommy">>
lock_path(base) == <<".">> \o base \o <<".lock">>
temp_out_path(base, pid, nanos) ==
    <<".">> \o base \o <<".", pid, ".", nanos, ".tmp">>

\* The three paths of a destination name three different files.
PathsDistinct ==
    \A pid \in {"pid1", "pid2"} :
        /\ lock_path(out_name) # out_name
        /\ lock_path(out_name) # temp_out_path(out_name, pid, "nanos")
        /\ temp_out_path(out_name, pid, "nanos") # out_name

\* C31: the lock file is a token and never data: once it exists no step of
\* the protocol removes it, replaces it or changes its content, it holds no
\* bytes, and its path is neither the destination nor a temporary path; so
\* all writers of the destination lock one and the same file.
C31_LockFileIsNeverData ==
    /\ [](PathsDistinct /\ lockFile.data = <<>>)
    /\ [][lockFile.exists => lockFile' = lockFile]_vars
    /\ [](\A w \in Writers :
             pc[w] \notin {"open_lock", "done_err"} => lockFile.exists)

\* Every writer has taken the lock in its turn and returned, the destination
\* was replaced, and the lock file is still there, empty.
C31_Witness ==
    /\ \A w \in Writers : Returned(w)
    /\ Len(lockOrder) = NumWriters
    /\ dest # initDest
    /\ lockFile = File(<<>>)

(***************************************************************************)
(* The lock and the child process.                                         *)
(***************************************************************************)

\* The child of run w may still be running: it was not started yet, or
\* spawn_and_stream has not returned.
ChildMayRun(w) == pc[w] \in {"spawn", "capture"}

\* C32: a run takes the lock only after spawn_and_stream has returned, that
\* is after its child has exited and the output is captured: a run whose
\* child may still be running holds no lock and has opened no lock file,
\* and the lock is taken only by a run that went from the capture through
\* the opening of the lock file.
C32_LockOnlyAfterCapture ==
    /\ [](\A w \in Writers : ChildMayRun(w) => w \notin holders /\ w \notin EverLocked)
    /\ [][\A w \in Writers :
            /\ w \in holders' /\ w \notin holders => pc[w] = "lock"
            /\ pc'[w] = "lock" /\ pc[w] # "lock" => pc[w] = "open_lock"
            /\ pc'[w] = "open_lock" /\ pc[w] # "open_lock" => pc[w] = "capture"]_vars

\* While the child of one run is still running, another run has taken the
\* lock, replaced the destination and returned.
C32_Witness ==
    \E w, v \in Writers :
        /\ pc[w] = "capture"
        /\ pc[v] = "done_ok"
        /\ v \in EverLocked
        /\ dest # initDest

(***************************************************************************)
(* Progress of the writers.  Every statement of run() but the blocking     *)
(* lock_exclusive() returns, by success or by failure; lock_exclusive()    *)
(* returns with the lock once no other handle holds it.                    *)
(***************************************************************************)

\* A step of writer w other than the blocking call.
WriterStep(w) ==
    \/ OpenLock(w)
    \/ Canonicalize(w)
    \/ CreateTemp(w)
    \/ CopyExisting(w)
    \/ WriteRecord(w)
    \/ Sync(w)
    \/ WinRemove(w)
    \/ Rename(w)
    \/ Cleanup(w)
    \/ Unlock(w)
    \/ Return(w)

\* lock_exclusive() of writer w returns with the lock.
LockAcquired(w) == LockExclusive(w) /\ w \in holders'

\* Some writer that can go on does go on: a statement that returns, or a
\* lock_exclusive() that the lock is free for.
ProgressStep == \E w \in Writers : WriterStep(w) \/ LockAcquired(w)

WriterFairness == WF_vars(ProgressStep)

\* The writers start as in Init, at a destination that does not exist yet:
\* which writer waits for which depends on the steps, not on the content.
LiveInit == Init /\ dest = NoFile

SpecLive == LiveInit /\ [][Next]_vars /\ WriterFairness

\* C33: the writers of a destination do not deadlock: as every critical
\* section ends, by success or by failure, a writer that waits for the lock
\* gets it (unless the lock call itself fails), and every writer returns.
C33_NoDeadlock ==
    <>(\A w \in Writers :
          Returned(w) /\ (w \in EverLocked \/ pc[w] = "done_err"))

\* Every writer took the lock and returned; the first holder failed inside
\* its critical section and the last one replaced the destination.
C33_Witness ==
    /\ \A w \in Writers : Returned(w)
    /\ Len(lockOrder) = NumWriters
    /\ pc[lockOrder[1]] = "done_err"
    /\ pc[lockOrder[NumWriters]] = "done_ok"
    /\ holders = {}

(***************************************************************************)
(* Replacing the destination.                                              *)
(***************************************************************************)

\* C34: a successful write without --append replaces the destination: right
\* after the rename the destination is exactly the encoding of the new
\* record, whatever the writer found when it took the lock, and it parses
\* to that one record.
C34_NonAppendReplaces ==
    \A w \in Writers :
        (pc[w] = "unlock" /\ ~append[w]) =>
            /\ dest = File(EncodeRecord(RecordOf(w)))
            /\ LET b == parse_str(dest.data)
               IN  /\ b.ok
                   /\ Len(b.records) = 1
                   /\ Matches(b.records[1], RecordOf(w))

\* The destination held a record, writer v appended a second one, and then
\* writer w, without --append, replaced both by its own.
C34_Witness ==
    \E v, w \in Writers :
        /\ initDest = File(EncodeRecord(RecordOf(0)))
        /\ lockOrder = <<v, w>>
        /\ append[v] /\ pc[v] = "done_ok"
        /\ ~append[w] /\ pc[w] = "unlock"
        /\ snap[w] = File(initDest.data \o EncodeRecord(RecordOf(v)))
        /\ dest # snap[w]

(***************************************************************************)
(* Records and META markers.                                               *)
(***************************************************************************)

\* The number of the lines ls that are META begin markers.
MetaMarkerLines(ls) ==
    Cardinality({i \in 1..Len(ls) : from_marker(ls[i]) = "Meta"})

\* C35: as long as the parse has not failed, every META begin marker of the
\* input has started one record: the records pushed, and the one that is
\* open, are as many as the META marker lines fed; so when parse_str
\* succeeds it returns as many records as the input has META marker lines.
C35_OneRecordPerMetaMarker ==
    /\ feed.p.err = "" =>
          Len(feed.p.out) + (IF feed.p.open THEN 1 ELSE 0) = feed.metas
    /\ (feed.phase = "eof" /\ feed.p.err = "") =>
          /\ FeedResult(feed).ok
          /\ Len(FeedResult(feed).records) =
                 MetaMarkerLines(SplitLines(ReplaceCRLF(TextOf(feed.file))))

\* The parse of a file of two records with a stray end marker between
\* them, written with "\r\n", has succeeded with two records.
C35_Witness ==
    /\ feed.phase = "eof"
    /\ feed.p.err = ""
    /\ Len(feed.p.out) = 2
    /\ feed.metas = 2
    /\ Len(feed.file.parts) = 3
    /\ feed.file.parts[2] = LinesPart("noise", <<<<MARK_END>>>>)
    /\ feed.file.eol = <<CR, NL>>

\* C36: an input without a META begin marker parses to Ok with no record,
\* and the parser stays Idle on it: as long as no META marker was fed the
\* locals of the loop are those of the start, whatever lines were fed (text,
\* blank lines, end markers, COMMAND, STDOUT or STDERR begin markers), and
\* at the end of such an input the result is Ok(empty).
C36_NoMetaMarkerParsesToNothing ==
    feed.metas = 0 =>
        /\ feed.p = ParserInit
        /\ feed.phase = "eof" =>
              FeedResult(feed) = [ok |-> TRUE, err |-> "", records |-> <<>>]

\* An input of MaxLines lines, with text and with a COMMAND, STDOUT or
\* STDERR begin marker but no META marker, has been parsed to the end.
C36_Witness ==
    /\ feed.phase = "eof"
    /\ feed.metas = 0
    /\ feed.n = MaxLines
    /\ feed.plain > 0
    /\ feed.stray
    /\ FeedResult(feed).ok

(***************************************************************************)
(* A file that is already at the temporary path.  temp_out_path names the  *)
(* file after the process id and the clock, so this is not expected; the   *)
(* write path is started here with such a file in place.                   *)
(***************************************************************************)

\* The content of a file found at a temporary path.
StaleData == <<"stale">>

\* As Init, at a destination that holds one record, and with a file at the
\* temporary path of any of the writers.
StaleInit ==
    /\ windows \in BOOLEAN
    /\ append \in [Writers -> BOOLEAN]
    /\ pc = [w \in Writers |-> "open_lock"]
    /\ dest = File(EncodeRecord(RecordOf(0)))
    /\ tmp \in [Writers -> {NoFile, File(StaleData)}]
    /\ lockFile = NoFile
    /\ holders = {}
    /\ snap = [w \in Writers |-> NoFile]
    /\ lockOrder = <<>>
    /\ initDest = dest
    /\ initTmp = tmp
    /\ removeFailed = [w \in Writers |-> FALSE]
    /\ spawnFailed = {}
    /\ codec = Idle
    /\ feed = Idle
    /\ capture = Idle
    /\ validation = Idle

SpecStale == StaleInit /\ [][Next]_vars

\* The exclusive creation fails on a file that is already there, and leaves
\* it as it is.
CreateFailsOnExisting ==
    \A w \in Writers :
        (pc[w] = "create" /\ tmp[w].exists /\ pc'[w] # "create") =>
            pc'[w] = "cleanup" /\ tmp'[w] = tmp[w]

\* C37 as claimed: the cleanup of a failed attempt removes whatever is at
\* the temporary path, a file that was there before the attempt included,
\* and it does so while the writer still holds the lock.
C37_CleanupRemovesTempPath ==
    /\ [](\A w \in Writers : pc[w] \in {"cleanup", "ret_err"} => w \in holders)
    /\ [][CreateFailsOnExisting]_vars
    /\ [][\A w \in Writers :
            (pc[w] = "cleanup" /\ pc'[w] # "cleanup") =>
                /\ pc'[w] = "ret_err"
                /\ w \in holders'
                /\ ~tmp'[w].exists]_vars

\* C37, amended: the same unless the remove_file itself fails; its result is
\* dropped, and the file then stays as it was.
C37_CleanupRemovesTempPathUnlessRemoveFails ==
    /\ [](\A w \in Writers : pc[w] \in {"cleanup", "ret_err"} => w \in holders)
    /\ [][CreateFailsOnExisting]_vars
    /\ [][\A w \in Writers :
            (pc[w] = "cleanup" /\ pc'[w] # "cleanup") =>
                /\ pc'[w] = "ret_err"
                /\ w \in holders'
                /\ \/ ~tmp'[w].exists
                   \/ removeFailed'[w] /\ tmp'[w] = tmp[w]]_vars

\* A writer found a file at its temporary path, failed to create its own,
\* has removed the file it found and still holds the lock; the destination
\* is as it was.
C37_Witness ==
    \E w \in Writers :
        /\ initTmp[w] = File(StaleData)
        /\ pc[w] = "ret_err"
        /\ ~tmp[w].exists
        /\ ~removeFailed[w]
        /\ w \in holders
        /\ dest = initDest

====
